---- MODULE Spec2Model ----
(***************************************************************************)
(* S2A half connection (security/s2a/internal/crypter/halfconn.go):        *)
(* one S2AHalfConnection shared by concurrent callers of Encrypt, Decrypt  *)
(* and UpdateKey.                                                          *)
(*                                                                         *)
(* Scaling.  A byte is modelled as one bit (Byte == 0 .. 1); the sequence  *)
(* number has uint64Size bytes (8 in the source) and the nonce nonceSize   *)
(* bytes (12 in the source).  Traffic secrets and keys are symbolic HKDF   *)
(* terms: a value records the length requested, the HKDF info it was       *)
(* expanded with and the encoding of the secret it was expanded from, so   *)
(* two values are equal exactly when they were derived the same way (the   *)
(* specification's premise that every key differs from every prior key).   *)
(* The bytes of a static nonce are an output of the HKDF expander that the *)
(* model does not compute: they are chosen (from ExpanderOutputs) when the *)
(* nonce is derived and remembered in hkdfOut, so that expanding is        *)
(* deterministic.                                                          *)
(***************************************************************************)
EXTENDS Integers, Sequences, FiniteSets, TLC

\* ------------------------------------------------------------------ bounds
\* Number of goroutines calling into the half connection.
NumThreads == 2
\* Number of UpdateKey calls that may be started.
MaxUpdates == 1
\* Bytes in a sequence number (8 in the source, scaled).
uint64Size == 2
\* Bytes in a nonce (12 in the source, scaled).
nonceSize == 3

Threads == 1 .. NumThreads
NoThread == 0

\* A byte, scaled to one bit.
Byte == 0 .. 1
ByteRadix == Cardinality(Byte)

RECURSIVE Pow(_, _)
Pow(b, e) == IF e = 0 THEN 1 ELSE b * Pow(b, e - 1)

\* Number of values of a sequence number (2^64 in the source).
SeqMod == Pow(ByteRadix, uint64Size)

\* ------------------------------------------------------------ byte strings
\* All byte strings of length n.
RECURSIVE ByteStrings(_)
ByteStrings(n) ==
    IF n = 0 THEN {<<>>}
    ELSE {Append(s, b) : s \in ByteStrings(n - 1), b \in Byte}

\* The nil slice.
Nil == [len |-> 0, info |-> <<>>, src |-> <<>>, bytes |-> <<>>]

\* Injective encoding of a value as the secret argument of an expansion.
Encode(v) == <<v.len, Len(v.info)>> \o v.info \o v.src

\* The traffic secret handed to NewHalfConn.
InitialSecret(size) == [len |-> size, info |-> <<>>, src |-> <<1>>, bytes |-> <<>>]

\* ------------------------------------------------------------------ labels
\* "tls13 key"
tls13Key == <<116, 108, 115, 49, 51, 32, 107, 101, 121>>
\* "tls13 iv"
tls13Nonce == <<116, 108, 115, 49, 51, 32, 105, 118>>
\* "tls13 traffic upd"
tls13Update == <<116, 108, 115, 49, 51, 32, 116, 114, 97, 102, 102, 105, 99, 32, 117, 112, 100>>

\* ------------------------------------------------------------ ciphersuites
Ciphersuites ==
    { [name |-> "AES_128_GCM_SHA256", keySize |-> 16, trafficSecretSize |-> 32,
       nonceSize |-> nonceSize, hash |-> 256],
      [name |-> "AES_256_GCM_SHA384", keySize |-> 32, trafficSecretSize |-> 48,
       nonceSize |-> nonceSize, hash |-> 384],
      [name |-> "CHACHA20_POLY1305_SHA256", keySize |-> 32, trafficSecretSize |-> 32,
       nonceSize |-> nonceSize, hash |-> 256] }

\* The suite the half connection under study was built with.
Suite == CHOOSE c \in Ciphersuites : c.name = "AES_128_GCM_SHA256"

\* The bytes of the static nonce derived from the initial secret.
InitialNonces == {[j \in 1 .. nonceSize |-> j % ByteRadix]}

\* The nonce bytes the expander may produce for a later secret.  Masking is
\* an exclusive or, so what matters is how a nonce differs from the others:
\* not at all, in a masked byte (the last), or in an unmasked byte (the
\* first, when the nonce is longer than the sequence number).
ExpanderOutputs ==
    InitialNonces \cup
    {[n EXCEPT ![j] = (n[j] + 1) % ByteRadix] : n \in InitialNonces, j \in {1, nonceSize}}

\* --------------------------------------------------------- HKDF derivation
\* hkdfExpander.expand: deterministic in (hash, secret, info, length); ok is
\* whether the expander reports success, out the bytes it produced (tracked
\* for nonces only).
expand(h, secret, info, length, ok, out) ==
    IF ok
    THEN [val |-> [len |-> length, info |-> <<h>> \o info, src |-> Encode(secret),
                   bytes |-> out],
          err |-> FALSE]
    ELSE [val |-> Nil, err |-> TRUE]

\* Mutant: the length is written low byte first.
hkdfLabelBytesLittleEndian(label, length) ==
    <<length % 256, (length % 65536) \div 256, Len(label)>> \o label \o <<0>>

\* The HkdfLabel structure built by cryptobyte.Builder: uint16 length, the
\* label and the empty context, each with a one-byte length prefix.
hkdfLabelBytes(label, length) ==
    <<(length % 65536) \div 256, length % 256, Len(label)>> \o label \o <<0>>

deriveSecret(h, secret, label, length, ok, out) ==
    IF Len(label) > 255
    THEN [val |-> Nil, err |-> TRUE]
    ELSE expand(h, secret, hkdfLabelBytes(label, length), length, ok, out)

\* -------------------------------------------------------- sequence counter
newCounter == [val |-> 0, hasOverflowed |-> FALSE]

\* counter.value: the current value, or an error once overflowed.
value(c) == [val |-> IF c.hasOverflowed THEN 0 ELSE c.val, err |-> c.hasOverflowed]

\* counter.increment: advance by one; a no-op once overflowed.
increment(c) ==
    IF c.hasOverflowed THEN c
    ELSE [val |-> (c.val + 1) % SeqMod, hasOverflowed |-> (c.val + 1) % SeqMod = 0]

\* counter.reset
reset(c) == [val |-> 0, hasOverflowed |-> FALSE]

\* ------------------------------------------------------------ nonce masking
ByteXor(a, b) == (a + b) % ByteRadix

\* byte(sequence >> (56 - 8*i)) for i in 0 .. uint64Size-1.
SeqByte(sequence, i) == (sequence \div Pow(ByteRadix, uint64Size - 1 - i)) % ByteRadix

\* maskedNonce indexes nonce[nonceSize-uint64Size+i] for every i: it panics
\* when the copy of hc.nonce is shorter than nonceSize.
maskedNoncePanics(static) == Len(static) < nonceSize

\* Mutant: the sequence number is rendered little-endian.
maskedNonceLittleEndian(static, sequence) ==
    [j \in 1 .. Len(static) |->
        IF j > nonceSize - uint64Size /\ j <= nonceSize
        THEN ByteXor(static[j], SeqByte(sequence, nonceSize - j))
        ELSE static[j]]

maskedNonce(static, sequence) ==
    [j \in 1 .. Len(static) |->
        IF j > nonceSize - uint64Size /\ j <= nonceSize
        THEN ByteXor(static[j], SeqByte(sequence, j - 1 - (nonceSize - uint64Size)))
        ELSE static[j]]

\* ------------------------------------------------------------- AEAD crypter
\* Mutant: any key of an AES key size is taken.
updateKeyAnyAesSize(crypter, newKey) ==
    IF newKey.len \notin {16, 32}
    THEN [crypter |-> crypter, err |-> TRUE]
    ELSE [crypter |-> [crypter EXCEPT !.key = newKey], err |-> FALSE]

\* s2aAeadCrypter.updateKey: replaces the key held by the crypter object in
\* place; an error when the new key has another size than the crypter's.
updateKey(crypter, newKey) ==
    IF newKey.len # crypter.keySize
    THEN [crypter |-> crypter, err |-> TRUE]
    ELSE [crypter |-> [crypter EXCEPT !.key = newKey], err |-> FALSE]

\* Outcome of crypter.encrypt / crypter.decrypt: an error for a nonce of the
\* wrong size, and for a decrypt whose tag does not verify.
aeadOutcome(o, n, authOk) ==
    IF Len(n) # nonceSize THEN "aead_error"
    ELSE IF o = "Decrypt" /\ ~authOk THEN "aead_error"
    ELSE "ok"

\* ------------------------------------------------------------------- state
VARIABLES
    cs,             \* hc.cs
    trafficSecret,  \* hc.trafficSecret
    key,            \* hc.key
    nonce,          \* hc.nonce (the static nonce)
    aeadCrypter,    \* the crypter object hc.aeadCrypter points to
    seqCounter,     \* hc.seqCounter
    mutex,          \* hc.mutex: the thread holding it, or NoThread
    hkdfOut,        \* nonce bytes the expander has produced, by (secret, info)
    pc,             \* per thread: position in its current call
    op,             \* per thread: the call it is in
    sequence,       \* per thread: local variable sequence
    recNonce,       \* per thread: local variable nonce (the masked nonce)
    err,            \* per thread: local variable err of UpdateKey
    result,         \* per thread: what its last call returned
    before,         \* history: hc's state when the thread took the mutex
    ivUsed,         \* history: the static nonce the thread masked
    keyUsed,        \* history: the key the crypter used for the thread's record
    delta,          \* history: by how much the call advanced the counter
    madeAead,       \* history: whether the call reached the AEAD crypter
    aeadCalls,      \* history: (key, nonce) pairs given to the AEAD so far
    reused,         \* history: some (key, nonce) pair was given to the AEAD twice
    issued,         \* history: sequence numbers obtained in this key epoch
    overflowSeen,   \* history: a call failed with overflow in this key epoch
    recovered,      \* history: an UpdateKey succeeded after an overflow
    updates,        \* number of UpdateKey calls started
    masked,         \* history: the masked nonces of this key epoch, in call order
    overlap,        \* history: two calls have been in progress at the same time
    ends,           \* a sender and a receiver half connection, each with one caller
    expanded,       \* which expansions the expander has performed, and whether it failed
    wire,           \* the record the sender produced, on its way to the receiver
    delivered,      \* what the receiver's Decrypt returned, until the next call
    unit,           \* a crypter created on its own and given a new key
    heap,           \* the byte arrays allocated so far
    trial,          \* the buffers handed to a buffer-level call, and what it returned
    conns,          \* two half connections, each with its own mutex and caller
    secretBufs,     \* the traffic-secret buffers the two half connections point into
    asked           \* what deriveSecret was given and what it handed the expander

vars == <<cs, trafficSecret, key, nonce, aeadCrypter, seqCounter, mutex, hkdfOut,
          pc, op, sequence, recNonce, err, result, before, ivUsed, keyUsed, delta,
          madeAead, aeadCalls, reused, issued, overflowSeen, recovered, updates,
          masked, overlap, ends, expanded, wire, delivered, unit,
          heap, trial, conns, secretBufs, asked>>

hcVars == <<cs, trafficSecret, key, nonce, aeadCrypter, seqCounter, hkdfOut>>
callVars == <<sequence, recNonce, err, ivUsed, keyUsed, delta, madeAead>>
histVars == <<aeadCalls, reused, issued, overflowSeen, recovered>>
pairVars == <<ends, expanded, wire, delivered, unit>>
bufVars == <<heap, trial>>
twinVars == <<conns, secretBufs>>
\* The state of the parts studied on their own.
sideVars == <<bufVars, twinVars, asked>>

\* The mutable state of the half connection.
HC == [trafficSecret |-> trafficSecret, key |-> key, nonce |-> nonce,
       crypterKey |-> aeadCrypter.key, seqCounter |-> seqCounter]

NoHC == [trafficSecret |-> Nil, key |-> Nil, nonce |-> Nil, crypterKey |-> Nil,
         seqCounter |-> newCounter]

\* Mutant: the nonce is derived with the key's label.
updateWithNewTrafficSecretKeyLabel(h, suite, oldNonce, newTrafficSecret, okKey, okNonce, out) ==
    LET k == deriveSecret(h, newTrafficSecret, tls13Key, suite.keySize, okKey, <<>>)
        n == deriveSecret(h, newTrafficSecret, tls13Key, suite.nonceSize, okNonce, out)
    IN  IF k.err
        THEN [key |-> k.val, nonce |-> oldNonce, err |-> TRUE]
        ELSE [key |-> k.val, nonce |-> n.val, err |-> n.err]

\* updateWithNewTrafficSecret: key first, then nonce; each assigned before
\* its error is looked at.
updateWithNewTrafficSecret(h, suite, oldNonce, newTrafficSecret, okKey, okNonce, out) ==
    LET k == deriveSecret(h, newTrafficSecret, tls13Key, suite.keySize, okKey, <<>>)
        n == deriveSecret(h, newTrafficSecret, tls13Nonce, suite.nonceSize, okNonce, out)
    IN  IF k.err
        THEN [key |-> k.val, nonce |-> oldNonce, err |-> TRUE]
        ELSE [key |-> k.val, nonce |-> n.val, err |-> n.err]

\* The expander is a function: bytes it produced before are produced again.
Expands(v, out) ==
    Encode(v) \in DOMAIN hkdfOut => hkdfOut[Encode(v)] = out

Remember(v) ==
    IF v = Nil THEN hkdfOut
    ELSE [x \in DOMAIN hkdfOut \cup {Encode(v)} |->
            IF x = Encode(v) THEN v.bytes ELSE hkdfOut[x]]

\* ------------------------------------------- construction, and calls in turn
\* Distinct traffic secrets of each length offered to NewHalfConn.
NumSecrets == 2
\* UpdateKey calls made on each of a sender and a receiver.
MaxRatchets == 1
\* Distinct plaintexts, and distinct associated data.
NumMessages == 2
\* Records the sender encrypts.
MaxRecords == 2

\* The values of s2a_proto.Ciphersuite: the three of the enumeration, and
\* a number outside it.
CiphersuiteIds ==
    {c.name : c \in Ciphersuites} \cup {"UNRECOGNIZED"}

\* What newCiphersuite gives for an identifier it does not know.
NoSuite == [name |-> "none", keySize |-> 0, trafficSecretSize |-> 0,
            nonceSize |-> 0, hash |-> 0]

\* newCiphersuite: the sizes and hash of a supported identifier.
newCiphersuite(id) ==
    IF \E c \in Ciphersuites : c.name = id
    THEN CHOOSE c \in Ciphersuites : c.name = id
    ELSE NoSuite

\* The traffic secrets offered to NewHalfConn: of every supported length, of
\* a length no suite uses, and empty.
Secrets ==
    {[len |-> n, info |-> <<>>, src |-> <<i>>, bytes |-> <<>>] :
        n \in {c.trafficSecretSize : c \in Ciphersuites} \cup {0, 31},
        i \in 1 .. NumSecrets}

\* cs.aeadCrypter(key): a crypter holding the key; an error for a key of
\* another size than the suite's.
aeadCrypterOf(suite, k) ==
    IF k.len # suite.keySize
    THEN [crypter |-> [key |-> Nil, keySize |-> 0], err |-> TRUE]
    ELSE [crypter |-> [key |-> k, keySize |-> k.len], err |-> FALSE]

\* The zero value S2AHalfConnection{}.
ZeroHC == [cs |-> NoSuite, trafficSecret |-> Nil, key |-> Nil, nonce |-> Nil,
           aeadCrypter |-> [key |-> Nil, keySize |-> 0], seqCounter |-> newCounter]

\* The expansions updateWithNewTrafficSecret asked of the expander, given
\* what it returned: the nonce is expanded only when the key was.
expansionsOf(r) ==
    IF r.key = Nil THEN <<"expand tls13 key">>
    ELSE <<"expand tls13 key", "expand tls13 iv">>

\* Mutant: the secret's length is looked at after the derivation.
NewHalfConnChecksLate(ciphersuite, secret, nilSuite, okKey, okNonce, out) ==
    LET suite == newCiphersuite(ciphersuite)
        r == updateWithNewTrafficSecret(suite.hash, suite, Nil, secret, okKey, okNonce, out)
        c == aeadCrypterOf(suite, r.key)
    IN  IF suite = NoSuite
        THEN [hc |-> ZeroHC, result |-> "panic", steps |-> <<"newCiphersuite">>]
        ELSE IF r.err
        THEN [hc |-> ZeroHC, result |-> "error",
              steps |-> <<"newCiphersuite">> \o expansionsOf(r)]
        ELSE IF suite.trafficSecretSize # secret.len
        THEN [hc |-> ZeroHC, result |-> "error",
              steps |-> <<"newCiphersuite">> \o expansionsOf(r) \o <<"length">>]
        ELSE [hc |-> [cs |-> suite, trafficSecret |-> secret, key |-> r.key,
                      nonce |-> r.nonce, aeadCrypter |-> c.crypter,
                      seqCounter |-> newCounter],
              result |-> "ok",
              steps |-> <<"newCiphersuite">> \o expansionsOf(r)
                            \o <<"length", "aeadCrypter">>]

\* Mutant: the crypter is built before the key is derived.
NewHalfConnCrypterFirst(ciphersuite, secret, nilSuite, okKey, okNonce, out) ==
    LET suite == newCiphersuite(ciphersuite)
        r == updateWithNewTrafficSecret(suite.hash, suite, Nil, secret, okKey, okNonce, out)
        c == aeadCrypterOf(suite, r.key)
    IN  IF suite = NoSuite
        THEN [hc |-> ZeroHC, result |-> "panic", steps |-> <<"newCiphersuite">>]
        ELSE IF suite.trafficSecretSize # secret.len
        THEN [hc |-> ZeroHC, result |-> "error", steps |-> <<"newCiphersuite", "length">>]
        ELSE IF r.err
        THEN [hc |-> ZeroHC, result |-> "error",
              steps |-> <<"newCiphersuite", "length", "aeadCrypter">> \o expansionsOf(r)]
        ELSE [hc |-> [cs |-> suite, trafficSecret |-> secret, key |-> r.key,
                      nonce |-> r.nonce, aeadCrypter |-> c.crypter,
                      seqCounter |-> newCounter],
              result |-> "ok",
              steps |-> <<"newCiphersuite", "length", "aeadCrypter">> \o expansionsOf(r)]

\* NewHalfConn.  newCiphersuite has one result and no error: for an
\* identifier it does not know it panics, or it returns nil (nilSuite) and
\* the call cs.trafficSecretSize() panics.
NewHalfConn(ciphersuite, secret, nilSuite, okKey, okNonce, out) ==
    LET suite == newCiphersuite(ciphersuite)
        r == updateWithNewTrafficSecret(suite.hash, suite, Nil, secret, okKey, okNonce, out)
        c == aeadCrypterOf(suite, r.key)
    IN  IF suite = NoSuite
        THEN [hc |-> ZeroHC, result |-> "panic",
              steps |-> IF nilSuite THEN <<"newCiphersuite", "length">>
                        ELSE <<"newCiphersuite">>]
        ELSE IF suite.trafficSecretSize # secret.len
        THEN [hc |-> ZeroHC, result |-> "error", steps |-> <<"newCiphersuite", "length">>]
        ELSE IF r.err
        THEN [hc |-> ZeroHC, result |-> "error",
              steps |-> <<"newCiphersuite", "length">> \o expansionsOf(r)]
        ELSE IF c.err
        THEN [hc |-> ZeroHC, result |-> "error",
              steps |-> <<"newCiphersuite", "length">> \o expansionsOf(r)
                            \o <<"aeadCrypter">>]
        ELSE [hc |-> [cs |-> suite, trafficSecret |-> secret, key |-> r.key,
                      nonce |-> r.nonce, aeadCrypter |-> c.crypter,
                      seqCounter |-> newCounter],
              result |-> "ok",
              steps |-> <<"newCiphersuite", "length">> \o expansionsOf(r)
                            \o <<"aeadCrypter">>]

\* ---------------------------------------------------- records and the AEAD
Messages == 1 .. NumMessages
NoRecord == [sealed |-> FALSE]
NoPlaintext == 0

\* crypter.encrypt: ciphertext and tag, which only the same key, nonce and
\* associated data open; an error for a nonce of the wrong size.
encrypt(crypter, plaintext, n, aad) ==
    IF Len(n) # nonceSize
    THEN [out |-> NoRecord, err |-> TRUE]
    ELSE [out |-> [sealed |-> TRUE, key |-> crypter.key, nonce |-> n, aad |-> aad,
                   msg |-> plaintext, damage |-> "none"],
          err |-> FALSE]

\* crypter.decrypt: the plaintext when the tag verifies; an error, and no
\* plaintext, for a nonce of the wrong size, a ciphertext shorter than the
\* tag, and a tag that does not verify.
decrypt(crypter, ciphertext, n, aad) ==
    IF \/ Len(n) # nonceSize
       \/ ciphertext.damage # "none"
       \/ ciphertext.key # crypter.key
       \/ ciphertext.nonce # n
       \/ ciphertext.aad # aad
    THEN [out |-> NoPlaintext, err |-> TRUE]
    ELSE [out |-> ciphertext.msg, err |-> FALSE]

\* ------------------------------------------------- a sender and a receiver
Sides == {"sender", "receiver"}

\* A half connection nobody has constructed yet.
NoEnd == [status |-> "none", hc |-> ZeroHC, steps |-> <<>>, ciphersuite |-> "none",
          secret |-> Nil, updates |-> 0, records |-> 0, built |-> ZeroHC]

NoWire == [record |-> NoRecord, aad |-> 0, updates |-> 0, position |-> newCounter]
NoDelivery == [done |-> FALSE]
NoUnit == [tried |-> FALSE]

\* No buffer-level call has been made, no pair of half connections with
\* mutexes exists, deriveSecret has not been called on its own.
NoTrial == [op |-> "none"]
NoAsk == [called |-> FALSE]
NoBuffers == heap = <<>> /\ trial = NoTrial
NoTwins == conns = <<>> /\ secretBufs = <<>>
NotAsked == asked = NoAsk

\* NewHalfConn, successful: length check, key and nonce derivation, crypter
\* construction, counter 0.
Init ==
    \E suite \in {Suite}, out \in InitialNonces :
        LET secret == InitialSecret(suite.trafficSecretSize)
            r == updateWithNewTrafficSecret(suite.hash, suite, Nil, secret, TRUE, TRUE, out)
        IN  /\ cs = suite
            /\ trafficSecret = secret
            /\ key = r.key
            /\ nonce = r.nonce
            /\ aeadCrypter = [key |-> r.key, keySize |-> r.key.len]
            /\ seqCounter = newCounter
            /\ mutex = NoThread
            /\ hkdfOut = [x \in {Encode(r.nonce)} |-> out]
            /\ pc = [t \in Threads |-> "idle"]
            /\ op = [t \in Threads |-> "none"]
            /\ sequence = [t \in Threads |-> 0]
            /\ recNonce = [t \in Threads |-> <<>>]
            /\ err = [t \in Threads |-> FALSE]
            /\ result = [t \in Threads |-> "none"]
            /\ before = [t \in Threads |-> NoHC]
            /\ ivUsed = [t \in Threads |-> Nil]
            /\ keyUsed = [t \in Threads |-> Nil]
            /\ delta = [t \in Threads |-> 0]
            /\ madeAead = [t \in Threads |-> FALSE]
            /\ aeadCalls = {}
            /\ reused = FALSE
            /\ issued = <<>>
            /\ overflowSeen = FALSE
            /\ recovered = FALSE
            /\ updates = 0
            /\ masked = <<>>
            /\ overlap = FALSE
            /\ ends = [s \in Sides |-> NoEnd]
            /\ expanded = <<>>
            /\ wire = NoWire
            /\ delivered = NoDelivery
            /\ unit = NoUnit
            /\ NoBuffers
            /\ NoTwins
            /\ NotAsked

\* ----------------------------------------------------------------- actions
\* A caller enters Encrypt, Decrypt or UpdateKey and reaches mutex.Lock().
Call(t, o) ==
    /\ pc[t] = "idle"
    /\ o = "UpdateKey" => updates < MaxUpdates
    /\ pc' = [pc EXCEPT ![t] = "lock"]
    /\ op' = [op EXCEPT ![t] = o]
    /\ updates' = IF o = "UpdateKey" THEN updates + 1 ELSE updates
    /\ overlap' = (overlap \/ \E u \in Threads : u # t /\ pc[u] # "idle")
    /\ UNCHANGED <<hcVars, mutex, callVars, result, before, histVars, masked, pairVars, sideVars>>

\* Mutant: the mutex is taken without waiting for it.
LockNoWait(t) ==
    /\ pc[t] = "lock"
    /\ mutex' = t
    /\ pc' = [pc EXCEPT ![t] = IF op[t] = "UpdateKey" THEN "upd_secret" ELSE "seq"]
    /\ before' = [before EXCEPT ![t] = HC]
    /\ UNCHANGED <<hcVars, op, callVars, result, histVars, updates, masked, overlap,
                   pairVars, sideVars>>

\* hc.mutex.Lock()
Lock(t) ==
    /\ pc[t] = "lock"
    /\ mutex = NoThread
    /\ mutex' = t
    /\ pc' = [pc EXCEPT ![t] = IF op[t] = "UpdateKey" THEN "upd_secret" ELSE "seq"]
    /\ before' = [before EXCEPT ![t] = HC]
    /\ UNCHANGED <<hcVars, op, callVars, result, histVars, updates, masked, overlap,
                   pairVars, sideVars>>

\* Mutant: the increment is forgotten.
getAndIncrementSequenceNoIncrement(c) ==
    LET v == value(c)
    IN  IF v.err
        THEN [sequence |-> 0, err |-> TRUE, counter |-> c]
        ELSE [sequence |-> v.val, err |-> FALSE, counter |-> c]

\* Mutant: the error of value() is dropped.
getAndIncrementSequenceIgnoresErr(c) ==
    [sequence |-> value(c).val, err |-> FALSE, counter |-> increment(c)]

\* getAndIncrementSequence: the counter's value, then its increment; on an
\* overflowed counter the error, and no increment.
getAndIncrementSequence(c) ==
    LET v == value(c)
    IN  IF v.err
        THEN [sequence |-> 0, err |-> TRUE, counter |-> c]
        ELSE [sequence |-> v.val, err |-> FALSE, counter |-> increment(c)]

\* How far counter c is behind counter d, in increments (0 or 1; 2 otherwise).
Advance(c, d) ==
    IF d = c THEN 0 ELSE IF d = increment(c) THEN 1 ELSE 2

\* sequence, err := hc.getAndIncrementSequence()
GetAndIncrement(t) ==
    /\ pc[t] = "seq"
    /\ LET r == getAndIncrementSequence(seqCounter)
       IN  /\ seqCounter' = r.counter
           /\ delta' = [delta EXCEPT ![t] = Advance(seqCounter, r.counter)]
           /\ IF r.err
              THEN /\ pc' = [pc EXCEPT ![t] = "ovf"]
                   /\ UNCHANGED <<sequence, issued>>
              ELSE /\ pc' = [pc EXCEPT ![t] = "mask"]
                   /\ sequence' = [sequence EXCEPT ![t] = r.sequence]
                   /\ issued' = Append(issued, r.sequence)
    /\ UNCHANGED <<cs, trafficSecret, key, nonce, aeadCrypter, hkdfOut, mutex, op,
                   recNonce, err, result, before, ivUsed, keyUsed, madeAead,
                   aeadCalls, reused, overflowSeen, recovered, updates, masked, overlap,
                   pairVars, sideVars>>

\* if err != nil { hc.mutex.Unlock(); return nil, err }
OverflowReturn(t) ==
    /\ pc[t] = "ovf"
    /\ mutex' = NoThread
    /\ pc' = [pc EXCEPT ![t] = "ret"]
    /\ result' = [result EXCEPT ![t] = "overflow"]
    /\ before' = [before EXCEPT ![t] = NoHC]
    /\ overflowSeen' = TRUE
    /\ UNCHANGED <<hcVars, op, callVars, aeadCalls, reused, issued, recovered, updates,
                   masked, overlap, pairVars, sideVars>>

\* Mutant: the mutex is kept through the AEAD step.
MaskKeepLocked(t) ==
    /\ pc[t] = "mask"
    /\ IF maskedNoncePanics(nonce.bytes)
       THEN /\ pc' = [pc EXCEPT ![t] = "panic"]
            /\ result' = [result EXCEPT ![t] = "panic"]
            /\ UNCHANGED <<recNonce, ivUsed, masked>>
       ELSE /\ pc' = [pc EXCEPT ![t] = "aead"]
            /\ recNonce' = [recNonce EXCEPT ![t] = maskedNonce(nonce.bytes, sequence[t])]
            /\ ivUsed' = [ivUsed EXCEPT ![t] = nonce]
            /\ masked' = Append(masked, [nonce |-> maskedNonce(nonce.bytes, sequence[t]),
                                          iv |-> nonce.bytes])
            /\ UNCHANGED result
    /\ UNCHANGED <<hcVars, mutex, before, op, sequence, err, keyUsed, delta, madeAead,
                   histVars, updates, overlap, pairVars, sideVars>>

\* Mutant: the sequence number is XORed into hc.nonce itself.
MaskInPlace(t) ==
    /\ pc[t] = "mask"
    /\ IF maskedNoncePanics(nonce.bytes)
       THEN /\ pc' = [pc EXCEPT ![t] = "panic"]
            /\ result' = [result EXCEPT ![t] = "panic"]
            /\ UNCHANGED <<mutex, recNonce, ivUsed, before, masked, nonce>>
       ELSE /\ pc' = [pc EXCEPT ![t] = "aead"]
            /\ recNonce' = [recNonce EXCEPT ![t] = maskedNonce(nonce.bytes, sequence[t])]
            /\ nonce' = [nonce EXCEPT !.bytes = maskedNonce(nonce.bytes, sequence[t])]
            /\ ivUsed' = [ivUsed EXCEPT ![t] = nonce]
            /\ mutex' = NoThread
            /\ before' = [before EXCEPT ![t] = NoHC]
            /\ masked' = Append(masked, [nonce |-> maskedNonce(nonce.bytes, sequence[t]),
                                          iv |-> nonce.bytes])
            /\ UNCHANGED result
    /\ UNCHANGED <<cs, trafficSecret, key, aeadCrypter, seqCounter, hkdfOut, op, sequence,
                   err, keyUsed, delta, madeAead, histVars, updates, overlap, pairVars,
                   sideVars>>

\* nonce := hc.maskedNonce(sequence); crypter := hc.aeadCrypter;
\* hc.mutex.Unlock().  A panic in maskedNonce leaves the mutex locked.
MaskAndUnlock(t) ==
    /\ pc[t] = "mask"
    /\ IF maskedNoncePanics(nonce.bytes)
       THEN /\ pc' = [pc EXCEPT ![t] = "panic"]
            /\ result' = [result EXCEPT ![t] = "panic"]
            /\ UNCHANGED <<mutex, recNonce, ivUsed, before, masked>>
       ELSE /\ pc' = [pc EXCEPT ![t] = "aead"]
            /\ recNonce' = [recNonce EXCEPT ![t] = maskedNonce(nonce.bytes, sequence[t])]
            /\ ivUsed' = [ivUsed EXCEPT ![t] = nonce]
            /\ mutex' = NoThread
            /\ before' = [before EXCEPT ![t] = NoHC]
            /\ masked' = Append(masked, [nonce |-> maskedNonce(nonce.bytes, sequence[t]),
                                          iv |-> nonce.bytes])
            /\ UNCHANGED result
    /\ UNCHANGED <<hcVars, op, sequence, err, keyUsed, delta, madeAead, histVars, updates,
                   overlap, pairVars, sideVars>>

\* return crypter.encrypt(dst, plaintext, nonce, aad), and the same with
\* decrypt: outside the mutex, with the key the crypter object holds now.
Aead(t, authOk) ==
    /\ pc[t] = "aead"
    /\ LET call == [key |-> aeadCrypter.key, nonce |-> recNonce[t]]
       IN  /\ aeadCalls' = aeadCalls \cup {call}
           /\ reused' = (reused \/ call \in aeadCalls)
    /\ keyUsed' = [keyUsed EXCEPT ![t] = aeadCrypter.key]
    /\ madeAead' = [madeAead EXCEPT ![t] = TRUE]
    /\ result' = [result EXCEPT ![t] = aeadOutcome(op[t], recNonce[t], authOk)]
    /\ pc' = [pc EXCEPT ![t] = "ret"]
    /\ UNCHANGED <<hcVars, mutex, op, sequence, recNonce, err, before, ivUsed, delta,
                   issued, overflowSeen, recovered, updates, masked, overlap, pairVars, sideVars>>

\* hc.trafficSecret, err = hc.deriveSecret(hc.trafficSecret, tls13Update, ...)
UpdateDeriveSecret(t, ok) ==
    /\ pc[t] = "upd_secret"
    /\ LET r == deriveSecret(cs.hash, trafficSecret, tls13Update,
                             cs.trafficSecretSize, ok, <<>>)
       IN  /\ trafficSecret' = r.val
           /\ err' = [err EXCEPT ![t] = r.err]
           /\ pc' = [pc EXCEPT ![t] = IF r.err THEN "upd_ret" ELSE "upd_keys"]
    /\ UNCHANGED <<cs, key, nonce, aeadCrypter, seqCounter, hkdfOut, mutex, op, sequence,
                   recNonce, result, before, ivUsed, keyUsed, delta, madeAead,
                   histVars, updates, masked, overlap, pairVars, sideVars>>

\* err = hc.updateWithNewTrafficSecret(hc.trafficSecret)
UpdateKeys(t, okKey, okNonce, out) ==
    /\ pc[t] = "upd_keys"
    /\ LET r == updateWithNewTrafficSecret(cs.hash, cs, nonce, trafficSecret,
                                           okKey, okNonce, out)
       IN  /\ r.nonce # nonce => Expands(r.nonce, out)
           /\ key' = r.key
           /\ nonce' = r.nonce
           /\ hkdfOut' = IF r.nonce # nonce THEN Remember(r.nonce) ELSE hkdfOut
           /\ err' = [err EXCEPT ![t] = r.err]
           /\ pc' = [pc EXCEPT ![t] = IF r.err THEN "upd_ret" ELSE "upd_crypter"]
    /\ UNCHANGED <<cs, trafficSecret, aeadCrypter, seqCounter, mutex, op, sequence,
                   recNonce, result, before, ivUsed, keyUsed, delta, madeAead,
                   histVars, updates, masked, overlap, pairVars, sideVars>>

\* err = hc.aeadCrypter.updateKey(hc.key)
UpdateCrypterKey(t) ==
    /\ pc[t] = "upd_crypter"
    /\ LET r == updateKey(aeadCrypter, key)
       IN  /\ aeadCrypter' = r.crypter
           /\ err' = [err EXCEPT ![t] = r.err]
           /\ pc' = [pc EXCEPT ![t] = IF r.err THEN "upd_ret" ELSE "upd_reset"]
    /\ UNCHANGED <<cs, trafficSecret, key, nonce, seqCounter, hkdfOut, mutex, op,
                   sequence, recNonce, result, before, ivUsed, keyUsed, delta, madeAead,
                   histVars, updates, masked, overlap, pairVars, sideVars>>

\* Mutant: UpdateKey returns without resetting the counter.
UpdateResetForgotten(t) ==
    /\ pc[t] = "upd_reset"
    /\ pc' = [pc EXCEPT ![t] = "upd_ret"]
    /\ issued' = <<>>
    /\ recovered' = (recovered \/ overflowSeen)
    /\ overflowSeen' = FALSE
    /\ masked' = <<>>
    /\ UNCHANGED <<hcVars, mutex, op, callVars, result, before, aeadCalls, reused,
                   updates, overlap, pairVars, sideVars>>

\* hc.seqCounter.reset(); return nil
UpdateReset(t) ==
    /\ pc[t] = "upd_reset"
    /\ seqCounter' = reset(seqCounter)
    /\ pc' = [pc EXCEPT ![t] = "upd_ret"]
    /\ issued' = <<>>
    /\ recovered' = (recovered \/ overflowSeen)
    /\ overflowSeen' = FALSE
    /\ masked' = <<>>
    /\ UNCHANGED <<cs, trafficSecret, key, nonce, aeadCrypter, hkdfOut, mutex, op,
                   callVars, result, before, aeadCalls, reused, updates, overlap,
                   pairVars, sideVars>>

\* defer hc.mutex.Unlock(), on every return of UpdateKey.
UpdateReturn(t) ==
    /\ pc[t] = "upd_ret"
    /\ mutex' = NoThread
    /\ pc' = [pc EXCEPT ![t] = "ret"]
    /\ result' = [result EXCEPT ![t] = IF err[t] THEN "update_error" ELSE "updated"]
    /\ before' = [before EXCEPT ![t] = NoHC]
    /\ UNCHANGED <<hcVars, op, callVars, histVars, updates, masked, overlap, pairVars, sideVars>>

\* The call has returned to its caller; its locals are gone.
Return(t) ==
    /\ pc[t] = "ret"
    /\ pc' = [pc EXCEPT ![t] = "idle"]
    /\ op' = [op EXCEPT ![t] = "none"]
    /\ sequence' = [sequence EXCEPT ![t] = 0]
    /\ recNonce' = [recNonce EXCEPT ![t] = <<>>]
    /\ err' = [err EXCEPT ![t] = FALSE]
    /\ result' = [result EXCEPT ![t] = "none"]
    /\ ivUsed' = [ivUsed EXCEPT ![t] = Nil]
    /\ keyUsed' = [keyUsed EXCEPT ![t] = Nil]
    /\ delta' = [delta EXCEPT ![t] = 0]
    /\ madeAead' = [madeAead EXCEPT ![t] = FALSE]
    /\ UNCHANGED <<hcVars, mutex, before, histVars, updates, masked, overlap, pairVars, sideVars>>

Next ==
    \E t \in Threads :
        \/ \E o \in {"Encrypt", "Decrypt", "UpdateKey"} : Call(t, o)
        \/ Lock(t)
        \/ GetAndIncrement(t)
        \/ OverflowReturn(t)
        \/ MaskAndUnlock(t)
        \/ \E authOk \in BOOLEAN : Aead(t, authOk)
        \/ \E ok \in BOOLEAN : UpdateDeriveSecret(t, ok)
        \/ \E okKey \in BOOLEAN, okNonce \in BOOLEAN, out \in ExpanderOutputs :
               UpdateKeys(t, okKey, okNonce, out)
        \/ UpdateCrypterKey(t)
        \/ UpdateReset(t)
        \/ UpdateReturn(t)
        \/ Return(t)

Spec == Init /\ [][Next]_vars

\* ---------------------------------------------------- calls made in turn
\* Encrypt, run by one caller from Lock to return.
Encrypt(hc, plaintext, aad) ==
    LET r == getAndIncrementSequence(hc.seqCounter)
        n == maskedNonce(hc.nonce.bytes, r.sequence)
        e == encrypt(hc.aeadCrypter, plaintext, n, aad)
    IN  IF r.err
        THEN [hc |-> hc, out |-> NoRecord, result |-> "overflow", sequence |-> 0]
        ELSE IF maskedNoncePanics(hc.nonce.bytes)
        THEN [hc |-> [hc EXCEPT !.seqCounter = r.counter], out |-> NoRecord,
              result |-> "panic", sequence |-> r.sequence]
        ELSE [hc |-> [hc EXCEPT !.seqCounter = r.counter], out |-> e.out,
              result |-> IF e.err THEN "aead_error" ELSE "ok", sequence |-> r.sequence]

\* Mutant: Decrypt gives the crypter the static nonce, unmasked.
DecryptUnmasked(hc, ciphertext, aad) ==
    LET r == getAndIncrementSequence(hc.seqCounter)
        d == decrypt(hc.aeadCrypter, ciphertext, hc.nonce.bytes, aad)
    IN  IF r.err
        THEN [hc |-> hc, out |-> NoPlaintext, result |-> "overflow", sequence |-> 0]
        ELSE [hc |-> [hc EXCEPT !.seqCounter = r.counter], out |-> d.out,
              result |-> IF d.err THEN "aead_error" ELSE "ok", sequence |-> r.sequence]

\* Mutant: Decrypt hands the plaintext buffer back whatever the crypter said.
DecryptKeepsPlaintext(hc, ciphertext, aad) ==
    LET r == getAndIncrementSequence(hc.seqCounter)
        n == maskedNonce(hc.nonce.bytes, r.sequence)
    IN  IF r.err
        THEN [hc |-> hc, out |-> NoPlaintext, result |-> "overflow", sequence |-> 0]
        ELSE IF maskedNoncePanics(hc.nonce.bytes)
        THEN [hc |-> [hc EXCEPT !.seqCounter = r.counter], out |-> NoPlaintext,
              result |-> "panic", sequence |-> r.sequence]
        ELSE [hc |-> [hc EXCEPT !.seqCounter = r.counter], out |-> ciphertext.msg,
              result |-> "ok", sequence |-> r.sequence]

\* Decrypt, run by one caller from Lock to return.
Decrypt(hc, ciphertext, aad) ==
    LET r == getAndIncrementSequence(hc.seqCounter)
        n == maskedNonce(hc.nonce.bytes, r.sequence)
        d == decrypt(hc.aeadCrypter, ciphertext, n, aad)
    IN  IF r.err
        THEN [hc |-> hc, out |-> NoPlaintext, result |-> "overflow", sequence |-> 0]
        ELSE IF maskedNoncePanics(hc.nonce.bytes)
        THEN [hc |-> [hc EXCEPT !.seqCounter = r.counter], out |-> NoPlaintext,
              result |-> "panic", sequence |-> r.sequence]
        ELSE [hc |-> [hc EXCEPT !.seqCounter = r.counter], out |-> d.out,
              result |-> IF d.err THEN "aead_error" ELSE "ok", sequence |-> r.sequence]

\* UpdateKey, run by one caller from Lock to return.
UpdateKey(hc, ok, okKey, okNonce, out) ==
    LET s == deriveSecret(hc.cs.hash, hc.trafficSecret, tls13Update,
                          hc.cs.trafficSecretSize, ok, <<>>)
        r == updateWithNewTrafficSecret(hc.cs.hash, hc.cs, hc.nonce, s.val,
                                        okKey, okNonce, out)
        hc1 == [hc EXCEPT !.trafficSecret = s.val]
        hc2 == [hc1 EXCEPT !.key = r.key, !.nonce = r.nonce]
        u == updateKey(hc.aeadCrypter, r.key)
    IN  IF s.err THEN [hc |-> hc1, err |-> TRUE]
        ELSE IF r.err THEN [hc |-> hc2, err |-> TRUE]
        ELSE IF u.err THEN [hc |-> hc2, err |-> TRUE]
        ELSE [hc |-> [hc2 EXCEPT !.aeadCrypter = u.crypter,
                                 !.seqCounter = reset(hc.seqCounter)],
              err |-> FALSE]

\* ------------------------------------------------------ the HKDF expander
\* The expansion deriveSecret asks for, as the expander sees it.
Request(h, secret, label, length) ==
    Encode(deriveSecret(h, secret, label, length, TRUE, <<>>).val)

\* The expansions that derive key and nonce from a secret, with their outcome.
keyAndNonceRequests(suite, secret, okKey, okNonce) ==
    IF okKey
    THEN {<<Request(suite.hash, secret, tls13Key, suite.keySize), TRUE>>,
          <<Request(suite.hash, secret, tls13Nonce, suite.nonceSize), okNonce>>}
    ELSE {<<Request(suite.hash, secret, tls13Key, suite.keySize), FALSE>>}

\* The expander is a function: an expansion fails now if it failed before.
Agrees(reqs) ==
    \A q \in reqs : q[1] \in DOMAIN expanded => expanded[q[1]] = q[2]

Noted(reqs) ==
    [x \in DOMAIN expanded \cup {q[1] : q \in reqs} |->
        IF \E q \in reqs : q[1] = x
        THEN (CHOOSE q \in reqs : q[1] = x)[2]
        ELSE expanded[x]]

\* Outcomes of expansions that are not made are not drawn.
Unused(flags) == \A f \in flags : f

AnyNonce == CHOOSE n \in InitialNonces : TRUE

\* ------------------------------------------------------------ pair actions
soloVars == <<cs, trafficSecret, key, nonce, aeadCrypter, seqCounter, mutex, pc, op,
              sequence, recNonce, err, result, before, ivUsed, keyUsed, delta, madeAead,
              aeadCalls, reused, issued, overflowSeen, recovered, updates, masked,
              overlap>>

\* The handshake layer constructs one direction: the sender's first, then
\* the receiver's for the ciphersuite the sender was given.
Construct(s, ciphersuite, secret, nilSuite, okKey, okNonce, out) ==
    /\ ends[s].status = "none"
    /\ ~unit.tried
    /\ s = "receiver" =>
           /\ ends["sender"].status = "ready"
           /\ ciphersuite = ends["sender"].ciphersuite
    /\ LET r == NewHalfConn(ciphersuite, secret, nilSuite, okKey, okNonce, out)
           suite == newCiphersuite(ciphersuite)
           derives == "expand tls13 key" \in {r.steps[i] : i \in 1 .. Len(r.steps)}
           reqs == IF derives THEN keyAndNonceRequests(suite, secret, okKey, okNonce)
                   ELSE {}
           gotNonce == derives /\ okKey /\ okNonce
       IN  /\ suite # NoSuite => ~nilSuite
           /\ ~derives => Unused({okKey, okNonce})
           /\ ~okKey => okNonce
           /\ ~gotNonce => out = AnyNonce
           /\ Agrees(reqs)
           /\ gotNonce => Expands(r.hc.nonce, out)
           /\ expanded' = Noted(reqs)
           /\ hkdfOut' = IF gotNonce THEN Remember(r.hc.nonce) ELSE hkdfOut
           /\ ends' = [ends EXCEPT ![s] =
                         [status |-> IF r.result = "ok" THEN "ready" ELSE r.result,
                          hc |-> r.hc, steps |-> r.steps, ciphersuite |-> ciphersuite,
                          secret |-> secret, updates |-> 0, records |-> 0,
                          built |-> r.hc]]
    /\ UNCHANGED <<soloVars, sideVars, wire, delivered, unit>>

\* The caller of one direction updates its key.
Ratchet(s, ok, okKey, okNonce, out) ==
    /\ ends[s].status = "ready"
    /\ ends[s].updates < MaxRatchets
    /\ LET hc == ends[s].hc
           r == UpdateKey(hc, ok, okKey, okNonce, out)
           reqs == {<<Request(hc.cs.hash, hc.trafficSecret, tls13Update,
                              hc.cs.trafficSecretSize), ok>>}
                   \cup (IF ok
                         THEN keyAndNonceRequests(hc.cs, r.hc.trafficSecret, okKey, okNonce)
                         ELSE {})
           gotNonce == ok /\ okKey /\ okNonce
       IN  /\ ~ok => Unused({okKey, okNonce})
           /\ ~okKey => okNonce
           /\ ~gotNonce => out = AnyNonce
           /\ Agrees(reqs)
           /\ gotNonce => Expands(r.hc.nonce, out)
           /\ expanded' = Noted(reqs)
           /\ hkdfOut' = IF gotNonce THEN Remember(r.hc.nonce) ELSE hkdfOut
           /\ ends' = [ends EXCEPT ![s].hc = r.hc, ![s].updates = @ + 1]
    /\ delivered' = NoDelivery
    /\ UNCHANGED <<soloVars, sideVars, wire, unit>>

\* The sender encrypts a record.  A panic in maskedNonce ends the sender.
Send(m, aad) ==
    /\ ends["sender"].status = "ready"
    /\ ends["sender"].records < MaxRecords
    /\ ~wire.record.sealed
    /\ LET r == Encrypt(ends["sender"].hc, m, aad)
       IN  /\ ends' = [ends EXCEPT !["sender"].hc = r.hc,
                                   !["sender"].records = @ + 1,
                                   !["sender"].status =
                                       IF r.result = "panic" THEN "panic" ELSE @]
           /\ wire' = IF r.result = "ok"
                      THEN [record |-> r.out, aad |-> aad,
                            updates |-> ends["sender"].updates,
                            position |-> ends["sender"].hc.seqCounter]
                      ELSE NoWire
    /\ delivered' = NoDelivery
    /\ UNCHANGED <<soloVars, sideVars, hkdfOut, expanded, unit>>

\* The network changes the record on its way: bits of the ciphertext, bits
\* of the tag, the associated data, or it cuts the record short of a tag.
Tamper(how, aad) ==
    /\ wire.record.sealed
    /\ wire.record.damage = "none"
    /\ wire.aad = wire.record.aad
    /\ IF how = "aad"
       THEN /\ aad # wire.aad
            /\ wire' = [wire EXCEPT !.aad = aad]
       ELSE /\ aad = wire.aad
            /\ wire' = [wire EXCEPT !.record.damage = how]
    /\ UNCHANGED <<soloVars, sideVars, hkdfOut, expanded, ends, delivered, unit>>

\* The record is lost.
Drop ==
    /\ wire.record.sealed
    /\ wire' = NoWire
    /\ UNCHANGED <<soloVars, sideVars, hkdfOut, expanded, ends, delivered, unit>>

\* The receiver decrypts the record that arrives.
Receive ==
    /\ ends["receiver"].status = "ready"
    /\ wire.record.sealed
    /\ LET r == Decrypt(ends["receiver"].hc, wire.record, wire.aad)
       IN  /\ ends' = [ends EXCEPT !["receiver"].hc = r.hc,
                                   !["receiver"].status =
                                       IF r.result = "panic" THEN "panic" ELSE @]
           /\ delivered' = [done |-> TRUE, out |-> r.out, result |-> r.result,
                            sent |-> wire, updates |-> ends["receiver"].updates,
                            position |-> ends["receiver"].hc.seqCounter]
    /\ wire' = NoWire
    /\ UNCHANGED <<soloVars, sideVars, hkdfOut, expanded, unit>>

\* newAESGCM(key): a crypter for a key of an AES key size.
newAESGCM(k) ==
    IF k.len \in {16, 32}
    THEN [crypter |-> [key |-> k, keySize |-> k.len], err |-> FALSE]
    ELSE [crypter |-> [key |-> Nil, keySize |-> 0], err |-> TRUE]

\* A crypter is created on its own and given a key of some size.
KeySizeUpdate(size, updateKeySize) ==
    /\ ~unit.tried
    /\ \A s \in Sides : ends[s].status = "none"
    /\ LET c == newAESGCM([len |-> size, info |-> <<>>, src |-> <<0>>, bytes |-> <<>>])
           newKey == [len |-> updateKeySize, info |-> <<>>, src |-> <<189>>, bytes |-> <<>>]
           u == updateKey(c.crypter, newKey)
       IN  /\ ~c.err
           /\ unit' = [tried |-> TRUE, crypter |-> c.crypter, newKey |-> newKey,
                       err |-> u.err, after |-> u.crypter]
    /\ UNCHANGED <<soloVars, sideVars, hkdfOut, expanded, ends, wire, delivered>>

\* No half connection is shared by threads and nothing has been constructed
\* (all but the static nonce).
Unbuilt ==
    /\ cs = NoSuite
    /\ trafficSecret = Nil
    /\ key = Nil
    /\ aeadCrypter = [key |-> Nil, keySize |-> 0]
    /\ seqCounter = newCounter
    /\ mutex = NoThread
    /\ hkdfOut = <<>>
    /\ pc = [t \in Threads |-> "idle"]
    /\ op = [t \in Threads |-> "none"]
    /\ sequence = [t \in Threads |-> 0]
    /\ recNonce = [t \in Threads |-> <<>>]
    /\ err = [t \in Threads |-> FALSE]
    /\ result = [t \in Threads |-> "none"]
    /\ before = [t \in Threads |-> NoHC]
    /\ ivUsed = [t \in Threads |-> Nil]
    /\ keyUsed = [t \in Threads |-> Nil]
    /\ delta = [t \in Threads |-> 0]
    /\ madeAead = [t \in Threads |-> FALSE]
    /\ aeadCalls = {}
    /\ reused = FALSE
    /\ issued = <<>>
    /\ overflowSeen = FALSE
    /\ recovered = FALSE
    /\ updates = 0
    /\ masked = <<>>
    /\ overlap = FALSE
    /\ ends = [s \in Sides |-> NoEnd]
    /\ expanded = <<>>
    /\ wire = NoWire
    /\ delivered = NoDelivery
    /\ unit = NoUnit

PairInit == Unbuilt /\ nonce = Nil /\ NoBuffers /\ NoTwins /\ NotAsked

PairNext ==
    \/ \E s \in Sides, ciphersuite \in CiphersuiteIds, secret \in Secrets,
          nilSuite \in BOOLEAN, okKey \in BOOLEAN, okNonce \in BOOLEAN,
          out \in InitialNonces :
           Construct(s, ciphersuite, secret, nilSuite, okKey, okNonce, out)
    \/ \E s \in Sides, ok \in BOOLEAN, okKey \in BOOLEAN, okNonce \in BOOLEAN,
          out \in ExpanderOutputs :
           Ratchet(s, ok, okKey, okNonce, out)
    \/ \E m \in Messages, aad \in Messages : Send(m, aad)
    \/ \E how \in {"ciphertext", "tag", "aad", "short"}, aad \in Messages :
           Tamper(how, aad)
    \/ Drop
    \/ Receive
    \/ \E size \in {16, 32}, updateKeySize \in {16, 17, 32} :
           KeySizeUpdate(size, updateKeySize)

PairSpec == PairInit /\ [][PairNext]_vars

\* --------------------------------------------------- maskedNonce on its own
\* Everything but the sequence number and the record nonce of a thread.
maskFrame == <<cs, trafficSecret, key, nonce, aeadCrypter, seqCounter, mutex, hkdfOut,
               pc, op, err, result, before, ivUsed, keyUsed, delta, madeAead, aeadCalls,
               reused, issued, overflowSeen, recovered, updates, masked, overlap,
               pairVars, sideVars>>

\* A half connection with any static nonce of nonceSize bytes.
MaskInit ==
    /\ Unbuilt
    /\ NoBuffers
    /\ NoTwins
    /\ NotAsked
    /\ \E n \in ByteStrings(nonceSize) :
           nonce = [len |-> nonceSize, info |-> <<>>, src |-> <<>>, bytes |-> n]

\* nonce := hc.maskedNonce(sequence), for any sequence number.
Mask(t, s) ==
    /\ recNonce[t] = <<>>
    /\ sequence' = [sequence EXCEPT ![t] = s]
    /\ recNonce' = [recNonce EXCEPT ![t] = maskedNonce(nonce.bytes, s)]
    /\ UNCHANGED maskFrame

MaskNext == \E t \in Threads, s \in 0 .. SeqMod - 1 : Mask(t, s)

MaskSpec == MaskInit /\ [][MaskNext]_vars

\* ------------------------------------------------------ buffers and slices
\* Largest capacity of a buffer a caller brings.
MaxCap == 3
\* Largest number of bytes asked of SliceForAppend.
MaxGrow == 2
\* Bytes in an authentication tag (GcmTagSize, 16 in the source, scaled).
tagSize == 1

\* A slice: the array it points into (0 for nil), where it starts there, its
\* length and its capacity.
NilSlice == [arr |-> 0, off |-> 0, len |-> 0, cap |-> 0]

\* The bytes a slice shows.
bytesOf(h, s) == [i \in 1 .. s.len |-> h[s.arr][s.off + i]]

\* s[lo:hi]
reslice(s, lo, hi) ==
    [arr |-> s.arr, off |-> s.off + lo, len |-> hi - lo, cap |-> s.cap - lo]

\* make([]byte, n): a new array of n zero bytes.
make(h, n) ==
    [heap |-> Append(h, [i \in 1 .. n |-> 0]),
     slice |-> [arr |-> Len(h) + 1, off |-> 0, len |-> n, cap |-> n]]

Min(a, b) == IF a < b THEN a ELSE b

\* copy(dst, src): the first min(len(dst), len(src)) bytes, as a memmove.
copy(h, dst, src) ==
    LET n == Min(dst.len, src.len)
    IN  IF n = 0 THEN h
        ELSE [h EXCEPT ![dst.arr] =
                 [j \in 1 .. Len(h[dst.arr]) |->
                     IF j > dst.off /\ j <= dst.off + n
                     THEN h[src.arr][src.off + (j - dst.off)]
                     ELSE h[dst.arr][j]]]

\* s[i] = b
store(h, s, i, b) == [h EXCEPT ![s.arr][s.off + i + 1] = b]

\* Mutant: the new buffer is not filled from the old.
SliceForAppendNoCopy(h, in, n) ==
    LET total == in.len + n
        m == make(h, total)
        head == IF in.cap >= total THEN [in EXCEPT !.len = total] ELSE m.slice
    IN  [heap |-> IF in.cap >= total THEN h ELSE m.heap,
         head |-> head,
         tail |-> reslice(head, in.len, head.len)]

\* Mutant: a new buffer is made whatever the capacity.
SliceForAppendAlwaysAllocates(h, in, n) ==
    LET total == in.len + n
        m == make(h, total)
    IN  [heap |-> copy(m.heap, m.slice, in),
         head |-> m.slice,
         tail |-> reslice(m.slice, in.len, total)]

\* Mutant: the extension is cleared when the capacity is reused.
SliceForAppendClearsTail(h, in, n) ==
    LET total == in.len + n
        m == make(h, total)
        head == IF in.cap >= total THEN [in EXCEPT !.len = total] ELSE m.slice
        tail == reslice(head, in.len, head.len)
    IN  [heap |-> IF in.cap >= total
                  THEN (IF n = 0 THEN h
                        ELSE [h EXCEPT ![tail.arr] =
                                 [j \in 1 .. Len(h[tail.arr]) |->
                                     IF j > tail.off /\ j <= tail.off + n
                                     THEN 0 ELSE h[tail.arr][j]]])
                  ELSE copy(m.heap, m.slice, in),
         head |-> head,
         tail |-> tail]

\* SliceForAppend(in, n): in[:total] when the capacity covers it, else a new
\* buffer holding a copy of in; tail is head[len(in):].
SliceForAppend(h, in, n) ==
    LET total == in.len + n
        m == make(h, total)
        head == IF in.cap >= total THEN [in EXCEPT !.len = total] ELSE m.slice
    IN  [heap |-> IF in.cap >= total THEN h ELSE copy(m.heap, m.slice, in),
         head |-> head,
         tail |-> reslice(head, in.len, head.len)]

\* ------------------------------------------------------- AEADs over buffers
\* fakeAEAD.Seal returns its plaintext argument, fakeAEAD.Open its
\* ciphertext argument and no error.
fakeSeal(h, dst, plaintext) == [heap |-> h, out |-> plaintext, panic |-> FALSE]
fakeOpen(h, dst, ciphertext) == [heap |-> h, out |-> ciphertext, err |-> FALSE]

\* A counter-mode cipher with a tag, standing for AES-GCM under one key and
\* nonce: byte i of the ciphertext is byte i of the plaintext XOR byte i of
\* the key stream, the tag is a function of the ciphertext.
keystream(i) == i % ByteRadix

RECURSIVE Sum(_)
Sum(b) == IF b = <<>> THEN 0 ELSE b[1] + Sum(Tail(b))

tagOf(body) == [j \in 1 .. tagSize |-> (Sum(body) + j) % ByteRadix]

\* out[i] = src[i] XOR keystream, byte after byte, in the memory as it is.
RECURSIVE counterCrypt(_, _, _, _)
counterCrypt(h, out, src, i) ==
    IF i >= src.len THEN h
    ELSE counterCrypt(store(h, out, i, ByteXor(h[src.arr][src.off + i + 1],
                                                keystream(i + 1))),
                      out, src, i + 1)

RECURSIVE storeAll(_, _, _, _)
storeAll(h, s, bytes, i) ==
    IF i >= Len(bytes) THEN h
    ELSE storeAll(store(h, s, i, bytes[i + 1]), s, bytes, i + 1)

\* Two slices share memory without starting at the same byte.
InexactOverlap(a, b) ==
    /\ a.len > 0
    /\ b.len > 0
    /\ a.arr = b.arr
    /\ a.off # b.off
    /\ a.off < b.off + b.len
    /\ b.off < a.off + a.len

\* The append idiom of crypto/cipher: room for n more bytes after dst.
grow(h, dst, n) ==
    LET total == dst.len + n
        m == make(h, total)
        head == IF dst.cap >= total THEN [dst EXCEPT !.len = total] ELSE m.slice
    IN  [heap |-> IF dst.cap >= total THEN h ELSE copy(m.heap, m.slice, dst),
         head |-> head,
         tail |-> reslice(head, dst.len, head.len)]

\* cipher.AEAD.Seal: appends ciphertext and tag to dst.
gcmSeal(h, dst, plaintext) ==
    LET r == grow(h, dst, plaintext.len + tagSize)
        body == reslice(r.tail, 0, plaintext.len)
        h1 == counterCrypt(r.heap, body, plaintext, 0)
        h2 == storeAll(h1, reslice(r.tail, plaintext.len, r.tail.len),
                       tagOf(bytesOf(h1, body)), 0)
    IN  IF InexactOverlap(r.tail, plaintext)
        THEN [heap |-> r.heap, out |-> NilSlice, panic |-> TRUE]
        ELSE [heap |-> h2, out |-> r.head, panic |-> FALSE]

\* cipher.AEAD.Open: appends the plaintext to dst when the tag verifies; an
\* error, and the output cleared, when it does not.
gcmOpen(h, dst, ciphertext) ==
    LET body == reslice(ciphertext, 0, ciphertext.len - tagSize)
        tag == bytesOf(h, reslice(ciphertext, ciphertext.len - tagSize, ciphertext.len))
        r == grow(h, dst, body.len)
    IN  IF ciphertext.len < tagSize
        THEN [heap |-> h, out |-> NilSlice, err |-> TRUE]
        ELSE IF tag # tagOf(bytesOf(h, body))
        THEN [heap |-> storeAll(r.heap, r.tail, [i \in 1 .. body.len |-> 0], 0),
              out |-> NilSlice, err |-> TRUE]
        ELSE [heap |-> counterCrypt(r.heap, r.tail, body, 0), out |-> r.head,
              err |-> FALSE]

AEADs == {"fakeAEAD", "gcm"}

Seal(aead, h, dst, plaintext) ==
    IF aead = "fakeAEAD" THEN fakeSeal(h, dst, plaintext) ELSE gcmSeal(h, dst, plaintext)

Open(aead, h, dst, ciphertext) ==
    IF aead = "fakeAEAD" THEN fakeOpen(h, dst, ciphertext) ELSE gcmOpen(h, dst, ciphertext)

\* Mutant: the nonce's length is not looked at.
encryptHelperAnyNonce(aead, h, dst, plaintext, nonceLen) ==
    LET r == SliceForAppend(h, dst, plaintext.len + tagSize)
        data == reslice(r.tail, 0, plaintext.len)
        sealed == Seal(aead, copy(r.heap, data, plaintext), reslice(r.head, 0, dst.len),
                       data)
    IN  [heap |-> sealed.heap, out |-> sealed.out, err |-> FALSE,
         panic |-> sealed.panic]

\* encrypt(aead, dst, plaintext, nonce, aad): an error for a nonce of another
\* length than nonceSize; else dst grown by SliceForAppend, the plaintext
\* copied into the extension and sealed there.
encryptHelper(aead, h, dst, plaintext, nonceLen) ==
    LET r == SliceForAppend(h, dst, plaintext.len + tagSize)
        data == reslice(r.tail, 0, plaintext.len)
        sealed == Seal(aead, copy(r.heap, data, plaintext), reslice(r.head, 0, dst.len),
                       data)
    IN  IF nonceLen # nonceSize
        THEN [heap |-> h, out |-> NilSlice, err |-> TRUE, panic |-> FALSE]
        ELSE [heap |-> sealed.heap, out |-> sealed.out, err |-> FALSE,
              panic |-> sealed.panic]

\* decrypt(aead, dst, ciphertext, nonce, aad): an error for a nonce of
\* another length than nonceSize; else what aead.Open returns.
decryptHelper(aead, h, dst, ciphertext, nonceLen) ==
    LET o == Open(aead, h, dst, ciphertext)
    IN  IF nonceLen # nonceSize
        THEN [heap |-> h, out |-> NilSlice, err |-> TRUE, panic |-> FALSE]
        ELSE [heap |-> o.heap, out |-> o.out, err |-> o.err, panic |-> FALSE]

\* ---------------------------------------------------- buffer-level calls
\* Everything but the heap and the trial.
bufFrame == <<soloVars, hkdfOut, pairVars, twinVars, asked>>

\* A caller holds a buffer: nil, or a slice of an array of any capacity up
\* to MaxCap with any bytes in it.
BufInit ==
    /\ Unbuilt
    /\ nonce = Nil
    /\ NoTwins
    /\ NotAsked
    /\ \/ /\ heap = <<>>
          /\ trial = [op |-> "none", buf |-> NilSlice]
       \/ \E c \in 0 .. MaxCap :
              \E bytes \in ByteStrings(c), o \in 0 .. c :
                  \E l \in 0 .. c - o :
                      /\ heap = <<bytes>>
                      /\ trial = [op |-> "none",
                                  buf |-> [arr |-> 1, off |-> o, len |-> l, cap |-> c - o]]

\* head, tail := SliceForAppend(buf, n)
Grow(n) ==
    /\ trial.op = "none"
    /\ LET r == SliceForAppend(heap, trial.buf, n)
       IN  /\ heap' = r.heap
           /\ trial' = [op |-> "SliceForAppend", buf |-> trial.buf, n |-> n,
                        head |-> r.head, tail |-> r.tail, before |-> heap,
                        wrote |-> "none", at |-> 0, byte |-> 0]
    /\ UNCHANGED bufFrame

\* The caller stores a byte through head, through tail or through the
\* buffer it passed.
Store(through, i, b) ==
    /\ trial.op = "SliceForAppend"
    /\ trial.wrote = "none"
    /\ LET sl == IF through = "head" THEN trial.head
                 ELSE IF through = "tail" THEN trial.tail
                 ELSE trial.buf
       IN  /\ i < sl.len
           /\ heap' = store(heap, sl, i, b)
    /\ trial' = [trial EXCEPT !.wrote = through, !.at = i, !.byte = b]
    /\ UNCHANGED bufFrame

\* The destination a caller passes: nil, buf[:0], or the empty start of a
\* buffer of its own with capacity c.
dstFor(h, buf, kind, c) ==
    IF kind = "nil" THEN [heap |-> h, slice |-> NilSlice]
    ELSE IF kind = "alias" THEN [heap |-> h, slice |-> reslice(buf, 0, 0)]
    ELSE [heap |-> make(h, c).heap, slice |-> reslice(make(h, c).slice, 0, 0)]

\* encrypt(aead, dst, buf, nonce, nil)
EncryptCall(aead, kind, c, nonceLen) ==
    /\ trial.op = "none"
    /\ kind # "disjoint" => c = 0
    /\ LET d == dstFor(heap, trial.buf, kind, c)
           r == encryptHelper(aead, d.heap, d.slice, trial.buf, nonceLen)
       IN  /\ heap' = r.heap
           /\ trial' = [op |-> "encrypt", aead |-> aead, kind |-> kind,
                        nonceLen |-> nonceLen, buf |-> trial.buf, dst |-> d.slice,
                        before |-> d.heap, out |-> r.out, err |-> r.err,
                        panic |-> r.panic]
    /\ UNCHANGED bufFrame

\* decrypt(aead, dst, buf, nonce, nil)
DecryptCall(aead, kind, c, nonceLen) ==
    /\ trial.op = "none"
    /\ kind # "disjoint" => c = 0
    /\ LET d == dstFor(heap, trial.buf, kind, c)
           r == decryptHelper(aead, d.heap, d.slice, trial.buf, nonceLen)
       IN  /\ heap' = r.heap
           /\ trial' = [op |-> "decrypt", aead |-> aead, kind |-> kind,
                        nonceLen |-> nonceLen, buf |-> trial.buf, dst |-> d.slice,
                        before |-> d.heap, out |-> r.out, err |-> r.err,
                        panic |-> r.panic]
    /\ UNCHANGED bufFrame

DstKinds == {"nil", "alias", "disjoint"}
NonceLens == {1, nonceSize, nonceSize + 1}

BufNext ==
    \/ \E n \in 0 .. MaxGrow : Grow(n)
    \/ \E through \in {"head", "tail", "buf"}, i \in 0 .. MaxCap + MaxGrow, b \in Byte :
           Store(through, i, b)
    \/ \E aead \in AEADs, kind \in DstKinds, c \in 0 .. MaxCap + tagSize,
          nonceLen \in NonceLens :
           EncryptCall(aead, kind, c, nonceLen)
    \/ \E aead \in AEADs, kind \in DstKinds, c \in 0 .. MaxCap + tagSize,
          nonceLen \in NonceLens :
           DecryptCall(aead, kind, c, nonceLen)

BufSpec == BufInit /\ [][BufNext]_vars

\* ------------------------------------- two half connections, two mutexes
\* Everything but the two half connections, their secret buffers and the
\* expander's record.
twinFrame == <<soloVars, ends, wire, delivered, unit, bufVars, asked>>

\* The traffic secret a half connection's slice shows (0 is the nil slice).
secretOf(bufs, ref) == IF ref = 0 THEN Nil ELSE bufs[ref]

\* The half connection s with its traffic secret read through the slice.
viewOf(c, bufs) == [c.hc EXCEPT !.trafficSecret = secretOf(bufs, c.hc.trafficSecret)]

\* Mutant: the new secret is written into the buffer the slice points to.
assignSecretInPlace(bufs, ref, v) ==
    IF v = Nil \/ ref = 0 THEN [bufs |-> bufs, ref |-> 0]
    ELSE [bufs |-> [bufs EXCEPT ![ref] = v], ref |-> ref]

\* hc.trafficSecret, err = hc.deriveSecret(...): the field is made to point
\* to the slice the expander returned, nil when it failed.
assignSecret(bufs, ref, v) ==
    IF v = Nil THEN [bufs |-> bufs, ref |-> 0]
    ELSE [bufs |-> Append(bufs, v), ref |-> Len(bufs) + 1]

\* NewHalfConn twice with the same ciphersuite, and with one secret buffer
\* or with two buffers holding the same secret; one caller per half
\* connection.
TwinInit ==
    /\ Unbuilt
    /\ nonce = Nil
    /\ NoBuffers
    /\ NotAsked
    /\ \E shared \in BOOLEAN, out \in InitialNonces :
           LET secret == InitialSecret(Suite.trafficSecretSize)
               built == NewHalfConn(Suite.name, secret, FALSE, TRUE, TRUE, out).hc
               conn(ref) == [hc |-> [built EXCEPT !.trafficSecret = ref],
                             origin |-> ref, mutex |-> FALSE, pc |-> "idle",
                             op |-> "none", recNonce |-> <<>>, result |-> "none",
                             updates |-> 0]
           IN  /\ secretBufs = IF shared THEN <<secret>> ELSE <<secret, secret>>
               /\ conns = [s \in Sides |->
                             IF shared \/ s = "sender" THEN conn(1) ELSE conn(2)]

\* The caller of s enters Encrypt, Decrypt or UpdateKey.
TwinCall(s, o) ==
    /\ conns[s].pc = "idle"
    /\ o = "UpdateKey" => conns[s].updates < MaxRatchets
    /\ conns' = [conns EXCEPT ![s].pc = "lock", ![s].op = o,
                              ![s].updates = IF o = "UpdateKey" THEN @ + 1 ELSE @]
    /\ UNCHANGED <<twinFrame, secretBufs, hkdfOut, expanded>>

\* hc.mutex.Lock() on the half connection's own mutex.
TwinLock(s) ==
    /\ conns[s].pc = "lock"
    /\ ~conns[s].mutex
    /\ conns' = [conns EXCEPT ![s].mutex = TRUE, ![s].pc = "held"]
    /\ UNCHANGED <<twinFrame, secretBufs, hkdfOut, expanded>>

\* Encrypt or Decrypt from the sequence number to Unlock.
TwinSequence(s) ==
    /\ conns[s].pc = "held"
    /\ conns[s].op \in {"Encrypt", "Decrypt"}
    /\ LET hc == conns[s].hc
           r == getAndIncrementSequence(hc.seqCounter)
       IN  conns' =
               IF r.err
               THEN [conns EXCEPT ![s].mutex = FALSE, ![s].pc = "ret",
                                  ![s].result = "overflow"]
               ELSE IF maskedNoncePanics(hc.nonce.bytes)
               THEN [conns EXCEPT ![s].hc.seqCounter = r.counter, ![s].pc = "panic",
                                  ![s].result = "panic"]
               ELSE [conns EXCEPT ![s].hc.seqCounter = r.counter, ![s].mutex = FALSE,
                                  ![s].pc = "aead",
                                  ![s].recNonce = maskedNonce(hc.nonce.bytes, r.sequence)]
    /\ UNCHANGED <<twinFrame, secretBufs, hkdfOut, expanded>>

\* The AEAD step, outside the mutex.
TwinAead(s, authOk) ==
    /\ conns[s].pc = "aead"
    /\ conns' = [conns EXCEPT ![s].pc = "ret",
                              ![s].result = aeadOutcome(conns[s].op, conns[s].recNonce,
                                                        authOk)]
    /\ UNCHANGED <<twinFrame, secretBufs, hkdfOut, expanded>>

\* UpdateKey from the derivation of the secret to the deferred Unlock.
TwinUpdateKey(s, ok, okKey, okNonce, out) ==
    /\ conns[s].pc = "held"
    /\ conns[s].op = "UpdateKey"
    /\ LET hc == viewOf(conns[s], secretBufs)
           r == UpdateKey(hc, ok, okKey, okNonce, out)
           a == assignSecret(secretBufs, conns[s].hc.trafficSecret, r.hc.trafficSecret)
           reqs == {<<Request(hc.cs.hash, hc.trafficSecret, tls13Update,
                              hc.cs.trafficSecretSize), ok>>}
                   \cup (IF ok
                         THEN keyAndNonceRequests(hc.cs, r.hc.trafficSecret, okKey, okNonce)
                         ELSE {})
           gotNonce == ok /\ okKey /\ okNonce
       IN  /\ ~ok => Unused({okKey, okNonce})
           /\ ~okKey => okNonce
           /\ ~gotNonce => out = AnyNonce
           /\ Agrees(reqs)
           /\ gotNonce => Expands(r.hc.nonce, out)
           /\ expanded' = Noted(reqs)
           /\ hkdfOut' = IF gotNonce THEN Remember(r.hc.nonce) ELSE hkdfOut
           /\ secretBufs' = a.bufs
           /\ conns' = [conns EXCEPT ![s].hc = [r.hc EXCEPT !.trafficSecret = a.ref],
                                     ![s].mutex = FALSE, ![s].pc = "ret",
                                     ![s].result = IF r.err THEN "update_error"
                                                   ELSE "updated"]
    /\ UNCHANGED twinFrame

\* The call has returned to its caller.
TwinReturn(s) ==
    /\ conns[s].pc = "ret"
    /\ conns' = [conns EXCEPT ![s].pc = "idle", ![s].op = "none",
                              ![s].recNonce = <<>>, ![s].result = "none"]
    /\ UNCHANGED <<twinFrame, secretBufs, hkdfOut, expanded>>

TwinNext ==
    \E s \in Sides :
        \/ \E o \in {"Encrypt", "Decrypt", "UpdateKey"} : TwinCall(s, o)
        \/ TwinLock(s)
        \/ TwinSequence(s)
        \/ \E authOk \in BOOLEAN : TwinAead(s, authOk)
        \/ \E ok \in BOOLEAN, okKey \in BOOLEAN, okNonce \in BOOLEAN,
              out \in ExpanderOutputs :
               TwinUpdateKey(s, ok, okKey, okNonce, out)
        \/ TwinReturn(s)

TwinSpec == TwinInit /\ [][TwinNext]_vars

\* ------------------------------------------------- deriveSecret on its own
\* Everything but what deriveSecret was asked.
labelFrame == <<soloVars, hkdfOut, pairVars, bufVars, twinVars>>

\* Labels: the three of the half connection, the empty one, one byte that
\* is not ASCII, and the longest a one-byte length prefix takes, with one
\* that is longer.
Labels ==
    {tls13Key, tls13Nonce, tls13Update, <<>>, <<255>>,
     [i \in 1 .. 255 |-> 97], [i \in 1 .. 256 |-> 97]}

\* Output lengths: the sizes of the ciphersuites, and the ends of the range
\* of each byte of a uint16.
Lengths == {0, 1, 12, 16, 32, 48, 255, 256, 257, 65535}

\* The half connection NewHalfConn gives for the first ciphersuite.
SampleHC ==
    NewHalfConn(Suite.name, InitialSecret(Suite.trafficSecretSize), FALSE, TRUE, TRUE,
                AnyNonce).hc

\* Any hash, secret, label and length.
LabelInit ==
    /\ Unbuilt
    /\ nonce = Nil
    /\ NoBuffers
    /\ NoTwins
    /\ \E h \in {c.hash : c \in Ciphersuites}, secret \in Secrets, label \in Labels,
          length \in Lengths :
           asked = [called |-> FALSE, h |-> h, secret |-> secret, label |-> label,
                    length |-> length]

\* hc.deriveSecret(secret, label, length)
Derive(ok) ==
    /\ ~asked.called
    /\ asked' = [called |-> TRUE, op |-> "deriveSecret", h |-> asked.h,
                 secret |-> asked.secret, label |-> asked.label,
                 length |-> asked.length, ok |-> ok,
                 r |-> deriveSecret(asked.h, asked.secret, asked.label, asked.length,
                                    ok, <<>>)]
    /\ UNCHANGED labelFrame

\* NewHalfConn followed by UpdateKey, every expansion succeeding.
DeriveAll ==
    /\ ~asked.called
    /\ asked' = [called |-> TRUE, op |-> "UpdateKey", built |-> SampleHC,
                 updated |-> UpdateKey(SampleHC, TRUE, TRUE, TRUE, AnyNonce).hc]
    /\ UNCHANGED labelFrame

LabelNext ==
    \/ \E ok \in BOOLEAN : Derive(ok)
    \/ DeriveAll

LabelSpec == LabelInit /\ [][LabelNext]_vars

\* ------------------------------------------------------------------ claims
\* C1: no two AEAD invocations made over the lifetime of the half connection
\* use the same (key, per-record nonce) pair.
C1_NoPairUsedTwice == ~reused

\* C2: the key the crypter uses for a record and the static nonce masked into
\* the record's nonce derive from the same traffic secret.
C2_KeyAndNonceOfOneEpoch ==
    \A t \in Threads :
        (pc[t] = "ret" /\ madeAead[t]) => keyUsed[t].src = ivUsed[t].src

\* C3: UpdateKey never writes the crypter's key while another thread is inside
\* that crypter's encrypt or decrypt.
C3_CrypterKeyRaceFree ==
    \A u \in Threads, t \in Threads :
        ~ /\ u # t
          /\ pc[u] = "upd_crypter"
          /\ ~updateKey(aeadCrypter, key).err
          /\ pc[t] = "aead"

\* C4: the sequence numbers obtained in one key epoch are, in the order the
\* calls took the mutex, exactly 0, 1, 2, ... with no gap and no repeat.
C4_SequenceNumbersInOrder ==
    \A i \in 1 .. Len(issued) : issued[i] = i - 1

\* Two calls are in their AEAD step and every sequence number of the epoch
\* has been handed out.
C4_Witness ==
    /\ Len(issued) = SeqMod
    /\ \E t \in Threads, u \in Threads : t # u /\ pc[t] = "aead" /\ pc[u] = "aead"

\* C5 as stated: a call that finds the counter at its maximum value fails
\* with the overflow error and leaves the half connection as it found it.
C5_FailsAtMaximumValue ==
    \A t \in Threads :
        ( /\ mutex = t
          /\ pc[t] \in {"mask", "ovf"}
          /\ before[t].seqCounter = [val |-> SeqMod - 1, hasOverflowed |-> FALSE] )
        => (pc[t] = "ovf" /\ HC = before[t])

\* C5 amended: a call that finds the counter overflowed (the maximum value
\* has been handed out) fails with the overflow error, leaves secret, key,
\* static nonce, crypter key and counter as it found them and makes no call
\* to the AEAD crypter; a call that finds the counter at its maximum value
\* obtains that value.
C5_FailsOnceOverflowed ==
    \A t \in Threads :
        /\ ( /\ mutex = t
             /\ pc[t] \in {"mask", "ovf"}
             /\ before[t].seqCounter.hasOverflowed )
           => (pc[t] = "ovf" /\ HC = before[t])
        /\ ( /\ mutex = t
             /\ pc[t] \in {"mask", "ovf"}
             /\ before[t].seqCounter = [val |-> SeqMod - 1, hasOverflowed |-> FALSE] )
           => (pc[t] = "mask" /\ sequence[t] = SeqMod - 1)
        /\ (pc[t] = "ret" /\ result[t] = "overflow")
           => (~madeAead[t] /\ delta[t] = 0)

\* A call has found the counter overflowed and is about to return the error.
C5_Witness ==
    \E t \in Threads : pc[t] = "ovf" /\ before[t].seqCounter.hasOverflowed

\* C6: in one key epoch the values 0 .. SeqMod-1 are obtained once each, a
\* call fails with overflow only after all of them have been obtained, and
\* no value is handed out a second time.
C6_ExactlySeqModPerEpoch ==
    /\ Len(issued) <= SeqMod
    /\ \A i \in 1 .. Len(issued), j \in 1 .. Len(issued) :
           issued[i] = issued[j] => i = j
    /\ overflowSeen => {issued[i] : i \in 1 .. Len(issued)} = 0 .. SeqMod - 1
    /\ \A t \in Threads : pc[t] = "ovf" => Len(issued) = SeqMod

\* A call failed with overflow after SeqMod calls obtained a sequence number.
C6_Witness ==
    overflowSeen /\ Len(issued) = SeqMod

\* C7: after a call failed with overflow no call obtains a sequence number
\* until an UpdateKey succeeds; a successful UpdateKey leaves the counter at
\* 0, and the first call after it obtains 0.
C7_OverflowUntilUpdateKey ==
    /\ overflowSeen => value(seqCounter).err
    /\ \A t \in Threads : pc[t] = "mask" => ~overflowSeen
    /\ \A u \in Threads :
           (pc[u] = "upd_ret" /\ ~err[u]) => value(seqCounter) = [val |-> 0, err |-> FALSE]
    /\ (recovered /\ issued # <<>>) => issued[1] = 0

\* After an overflow and a successful UpdateKey a call obtained a sequence
C7_Witness ==
    recovered /\ issued # <<>>

\* C8: a call whose AEAD step failed advanced the counter by exactly one; a
\* call that failed with overflow did not advance it.
C8_CounterConsumedOnAeadFailure ==
    \A t \in Threads :
        pc[t] = "ret" =>
            /\ result[t] = "aead_error" => delta[t] = 1
            /\ result[t] = "overflow" => delta[t] = 0

\* A Decrypt returned an AEAD error.
C8_Witness ==
    \E t \in Threads : pc[t] = "ret" /\ result[t] = "aead_error" /\ madeAead[t]

\* C9: when UpdateKey returns nil, the secret is the "tls13 traffic upd"
\* derivation of the secret it found, key and static nonce are the
\* "tls13 key" and "tls13 iv" derivations of the new secret, the crypter
\* holds the new key, the counter is 0 and the old secret is gone.
C9_UpdateKeyRatchets ==
    \A u \in Threads :
        (pc[u] = "upd_ret" /\ ~err[u]) =>
            LET S == before[u].trafficSecret
                S1 == deriveSecret(cs.hash, S, tls13Update, cs.trafficSecretSize,
                                   TRUE, <<>>).val
            IN  /\ trafficSecret = S1
                /\ key = deriveSecret(cs.hash, S1, tls13Key, cs.keySize, TRUE, <<>>).val
                /\ nonce = deriveSecret(cs.hash, S1, tls13Nonce, cs.nonceSize, TRUE,
                                        nonce.bytes).val
                /\ Len(nonce.bytes) = cs.nonceSize
                /\ key.src # Encode(S) /\ nonce.src # Encode(S)
                /\ aeadCrypter.key = key
                /\ seqCounter = newCounter
                /\ trafficSecret # S

\* An UpdateKey is returning nil.
C9_Witness ==
    \E u \in Threads : pc[u] = "upd_ret" /\ ~err[u] /\ before[u].seqCounter # newCounter

\* C10: when UpdateKey returns an error, secret, key, static nonce, crypter
\* key and counter are what they were when it took the mutex.
C10_FailedUpdateKeyChangesNothing ==
    \A u \in Threads :
        (pc[u] = "upd_ret" /\ err[u]) => HC = before[u]

\* C11: whenever the mutex is free, the crypter holds the current key, and
\* key and static nonce are the "tls13 key" and "tls13 iv" derivations of the
\* current traffic secret.
C11_CrypterKeyAndNonceCurrent ==
    mutex = NoThread =>
        /\ aeadCrypter.key = key
        /\ key = deriveSecret(cs.hash, trafficSecret, tls13Key, cs.keySize, TRUE, <<>>).val
        /\ nonce = deriveSecret(cs.hash, trafficSecret, tls13Nonce, cs.nonceSize, TRUE,
                                nonce.bytes).val

\* C12: whenever no call holds the mutex, traffic secret, key and static
\* nonce have the lengths of the ciphersuite.
C12_LengthsMatchCiphersuite ==
    mutex = NoThread =>
        /\ trafficSecret.len = cs.trafficSecretSize
        /\ key.len = cs.keySize
        /\ nonce.len = cs.nonceSize
        /\ Len(nonce.bytes) = cs.nonceSize

\* The steps NewHalfConn took, as a set.
StepsOf(e) == {e.steps[i] : i \in 1 .. Len(e.steps)}

\* C13: NewHalfConn given a secret of another length than the suite's
\* traffic secret size returns an error and the zero half connection, having
\* asked nothing of the expander and built no crypter.
C13_WrongSecretLengthFailsFirst ==
    \A s \in Sides :
        LET e == ends[s]
            suite == newCiphersuite(e.ciphersuite)
        IN  (e.status # "none" /\ suite # NoSuite /\ e.secret.len # suite.trafficSecretSize)
            => /\ e.status = "error"
               /\ e.hc = ZeroHC
               /\ e.steps = <<"newCiphersuite", "length">>
               /\ StepsOf(e) \cap {"expand tls13 key", "expand tls13 iv", "aeadCrypter"} = {}

\* NewHalfConn has returned an error for a secret one byte short.
C13_Witness ==
    \E s \in Sides :
        /\ ends[s].status = "error"
        /\ newCiphersuite(ends[s].ciphersuite) # NoSuite
        /\ ends[s].secret.len + 1 = newCiphersuite(ends[s].ciphersuite).trafficSecretSize

\* C14: NewHalfConn given an identifier outside the supported set returns an
\* error and no half connection.
C14_UnknownCiphersuiteIsAnError ==
    \A s \in Sides :
        (ends[s].status # "none" /\ newCiphersuite(ends[s].ciphersuite) = NoSuite)
        => (ends[s].status = "error" /\ ends[s].hc = ZeroHC)

\* C15: a half connection NewHalfConn returns has the "tls13 key" and
\* "tls13 iv" derivations of the secret as key and static nonce, a crypter
\* holding that key and the counter at 0; the steps are length check, key,
\* nonce, crypter in this order, and a failed derivation returns an error
\* with no crypter built.
C15_ConstructionDerivesThenBuilds ==
    \A s \in Sides :
        LET e == ends[s]
            suite == newCiphersuite(e.ciphersuite)
        IN  /\ e.status = "ready" =>
                /\ e.built.trafficSecret = e.secret
                /\ e.built.key = deriveSecret(suite.hash, e.secret, tls13Key,
                                              suite.keySize, TRUE, <<>>).val
                /\ e.built.nonce = deriveSecret(suite.hash, e.secret, tls13Nonce,
                                                suite.nonceSize, TRUE,
                                                e.built.nonce.bytes).val
                /\ Len(e.built.nonce.bytes) = suite.nonceSize
                /\ e.built.aeadCrypter = [key |-> e.built.key, keySize |-> suite.keySize]
                /\ e.built.seqCounter = newCounter
                /\ value(e.built.seqCounter) = [val |-> 0, err |-> FALSE]
                /\ e.steps = <<"newCiphersuite", "length", "expand tls13 key",
                               "expand tls13 iv", "aeadCrypter">>
            /\ (e.status = "error" /\ "expand tls13 key" \in StepsOf(e)) =>
                /\ "aeadCrypter" \notin StepsOf(e)
                /\ e.hc = ZeroHC
                /\ e.steps[2] = "length"

\* The sender was constructed, and the receiver's construction failed in a
\* derivation.
C15_Witness ==
    /\ ends["sender"].status = "ready"
    /\ ends["receiver"].status = "error"
    /\ "expand tls13 iv" \in StepsOf(ends["receiver"])

\* The value of a byte string read as a big-endian number.
RECURSIVE BigEndian(_)
BigEndian(b) ==
    IF b = <<>> THEN 0
    ELSE BigEndian(SubSeq(b, 1, Len(b) - 1)) * ByteRadix + b[Len(b)]

\* The uint64Size bytes of a sequence number, most significant first.
BigEndianBytes(v) ==
    [i \in 1 .. uint64Size |-> (v \div Pow(ByteRadix, uint64Size - i)) % ByteRadix]

\* The bytes in which two nonces differ (their exclusive or), low
\* uint64Size bytes only.
LowXor(m, n) ==
    [i \in 1 .. uint64Size |->
        ByteXor(m[nonceSize - uint64Size + i], n[nonceSize - uint64Size + i])]

\* C16: the record nonce has the static nonce's length and high bytes, its
\* low uint64Size bytes are the static nonce's exclusive-or the big-endian
\* bytes of the sequence number, it is the static nonce for sequence 0, and
\* different sequence numbers give different record nonces.
C16_MaskedNonceXorsBigEndian ==
    \A t \in Threads :
        recNonce[t] # <<>> =>
            /\ Len(recNonce[t]) = nonceSize
            /\ \A j \in 1 .. nonceSize - uint64Size : recNonce[t][j] = nonce.bytes[j]
            /\ \A i \in 0 .. uint64Size - 1 :
                   recNonce[t][nonceSize - uint64Size + 1 + i] =
                       ByteXor(nonce.bytes[nonceSize - uint64Size + 1 + i],
                               BigEndianBytes(sequence[t])[i + 1])
            /\ BigEndian(LowXor(recNonce[t], nonce.bytes)) = sequence[t]
            /\ (sequence[t] = 0 => recNonce[t] = nonce.bytes)
            /\ \A u \in Threads :
                   recNonce[u] = recNonce[t] => sequence[u] = sequence[t]

\* Two sequence numbers, the highest one and a lower one, have been masked
\* into a static nonce that is not all zero.
C16_Witness ==
    \E t \in Threads, u \in Threads :
        /\ recNonce[t] # <<>> /\ recNonce[u] # <<>>
        /\ sequence[t] = SeqMod - 1
        /\ sequence[u] = 1
        /\ BigEndian(nonce.bytes) # 0

\* C17 as stated: the masked nonces of one key epoch, read as big-endian
\* numbers, increase strictly in call order.
C17_MaskedNoncesIncrease ==
    \A i \in 1 .. Len(masked), j \in 1 .. Len(masked) :
        i < j => BigEndian(masked[i].nonce) < BigEndian(masked[j].nonce)

\* C17 amended: the masked nonces of one key epoch are pairwise distinct, and
\* the sequence numbers masked into them increase strictly in call order.
C17_MaskedNoncesDistinct ==
    \A i \in 1 .. Len(masked), j \in 1 .. Len(masked) :
        i < j =>
            /\ masked[i].nonce # masked[j].nonce
            /\ BigEndian(LowXor(masked[i].nonce, masked[i].iv))
                   < BigEndian(LowXor(masked[j].nonce, masked[j].iv))

\* No two calls have overlapped, every sequence number of the epoch has been
\* masked, and the last call is an Encrypt.
C17_Witness ==
    /\ ~overlap
    /\ Len(masked) = SeqMod
    /\ \E t \in Threads : pc[t] = "aead" /\ op[t] = "Encrypt"

\* The record that arrived is the one the sender produced, with the
\* associated data it was produced with.
Unmodified(w) ==
    w.record.damage = "none" /\ w.aad = w.record.aad

\* C18: when sender and receiver were built from the same ciphersuite and
\* secret, have made the same number of UpdateKey calls and are at the same
\* position of the counter, Decrypt of what Encrypt produced returns the
\* plaintext and no error.
C18_RoundTrip ==
    ( /\ delivered.done
      /\ ends["sender"].ciphersuite = ends["receiver"].ciphersuite
      /\ ends["sender"].secret = ends["receiver"].secret
      /\ Unmodified(delivered.sent)
      /\ delivered.updates = delivered.sent.updates
      /\ delivered.position = delivered.sent.position )
    => (delivered.result = "ok" /\ delivered.out = delivered.sent.record.msg)

\* A record made after both sides updated their key has come through.
C18_Witness ==
    /\ delivered.done
    /\ delivered.result = "ok"
    /\ delivered.updates = MaxRatchets
    /\ delivered.sent.updates = MaxRatchets
    /\ ends["sender"].secret = ends["receiver"].secret

\* C19: Decrypt returns a plaintext only for the record Encrypt produced,
\* under the key, nonce and associated data it was produced with; for a
\* record changed in ciphertext, tag or associated data, or cut short, it
\* returns an error and no plaintext.
C19_PlaintextOnlyForUnmodifiedRecord ==
    delivered.done =>
        /\ ~Unmodified(delivered.sent) =>
               /\ delivered.result # "ok"
               /\ delivered.result \notin {"overflow", "panic"} =>
                      delivered.result = "aead_error"
        /\ delivered.result # "ok" => delivered.out = NoPlaintext
        /\ delivered.result = "ok" =>
               /\ Unmodified(delivered.sent)
               /\ delivered.out = delivered.sent.record.msg
               /\ delivered.sent.record.key = ends["receiver"].hc.aeadCrypter.key

\* A record whose associated data was changed on the way was refused by a
\* receiver holding the sender's key.
C19_Witness ==
    /\ delivered.done
    /\ delivered.result = "aead_error"
    /\ delivered.sent.record.damage = "none"
    /\ delivered.sent.aad # delivered.sent.record.aad
    /\ delivered.sent.record.key = ends["receiver"].hc.aeadCrypter.key
    /\ delivered.position = delivered.sent.position

\* C20: updateKey returns an error, and leaves the crypter as it was, for a
\* key of another size than the crypter's; it takes a key of that size.
C20_UpdateKeyRejectsOtherSizes ==
    unit.tried =>
        /\ unit.newKey.len # unit.crypter.keySize =>
               (unit.err /\ unit.after = unit.crypter)
        /\ unit.newKey.len = unit.crypter.keySize =>
               (~unit.err /\ unit.after.key = unit.newKey)

\* A crypter for a 16-byte key was offered a 32-byte key.
C20_Witness ==
    /\ unit.tried
    /\ unit.crypter.keySize = 16
    /\ unit.newKey.len = 32
    /\ unit.err

\* What sealing a plaintext gives, and what opening a ciphertext gives, as
\* byte strings.
Sealed(plaintext) ==
    LET body == [i \in 1 .. Len(plaintext) |-> ByteXor(plaintext[i], keystream(i))]
    IN  body \o tagOf(body)

Opened(ciphertext) ==
    LET n == Len(ciphertext) - tagSize
        body == SubSeq(ciphertext, 1, n)
    IN  IF n < 0 \/ SubSeq(ciphertext, n + 1, Len(ciphertext)) # tagOf(body)
        THEN [out |-> <<>>, err |-> TRUE]
        ELSE [out |-> [i \in 1 .. n |-> ByteXor(body[i], keystream(i))], err |-> FALSE]

C22_SliceForAppendContract ==
    trial.op = "SliceForAppend" =>
        /\ trial.head.len = trial.buf.len + trial.n
        /\ trial.wrote \in {"none", "tail"} =>
               bytesOf(heap, reslice(trial.head, 0, trial.buf.len))
                   = bytesOf(trial.before, trial.buf)
        /\ trial.tail.len = trial.n
        /\ trial.tail.arr = trial.head.arr
        /\ trial.tail.off = trial.head.off + trial.buf.len
        /\ trial.wrote = "tail" =>
               bytesOf(heap, trial.head)[trial.buf.len + trial.at + 1] = trial.byte

\* A buffer with bytes in it had to be moved, and a byte stored through
\* tail changed what head shows.
C22_Witness ==
    /\ trial.op = "SliceForAppend"
    /\ trial.buf.len > 0
    /\ trial.n > 0
    /\ Len(heap) > Len(trial.before)
    /\ \E i \in 1 .. trial.buf.len : trial.before[trial.buf.arr][trial.buf.off + i] # 0
    /\ trial.wrote = "tail"
    /\ trial.byte # 0

\* C23: encrypting or decrypting with dst = buf[:0] gives the same bytes
\* (and the same error) as with a destination of its own, of every capacity
\* from none to more than needed.
C23_AliasedDstGivesSameOutput ==
    (trial.op \in {"encrypt", "decrypt"} /\ trial.kind = "alias") =>
        \A c \in 0 .. MaxCap + tagSize :
            LET d == dstFor(trial.before, trial.buf, "disjoint", c)
                r == IF trial.op = "encrypt"
                     THEN encryptHelper(trial.aead, d.heap, d.slice, trial.buf,
                                        trial.nonceLen)
                     ELSE decryptHelper(trial.aead, d.heap, d.slice, trial.buf,
                                        trial.nonceLen)
            IN  /\ ~trial.panic
                /\ ~r.panic
                /\ trial.err = r.err
                /\ bytesOf(heap, trial.out) = bytesOf(r.heap, r.out)

\* A plaintext encrypted in place, in a buffer with more room than needed.
C23_Witness ==
    /\ trial.op = "encrypt"
    /\ trial.aead = "gcm"
    /\ trial.kind = "alias"
    /\ trial.nonceLen = nonceSize
    /\ trial.buf.len > 0
    /\ trial.buf.cap > trial.buf.len + tagSize
    /\ Len(heap) = Len(trial.before)
    /\ trial.out.arr = trial.buf.arr
    /\ bytesOf(heap, trial.out) = Sealed(bytesOf(trial.before, trial.buf))
    /\ bytesOf(heap, trial.out) # bytesOf(trial.before, trial.out)

\* C28: SliceForAppend allocates exactly when cap(in) < len(in) + n.
\* Without allocation head starts where in starts and a byte stored through
\* tail lands in in's array; with allocation head is a new array holding a
\* copy of in, and a byte stored through head or tail leaves in's array as
\* it was.
C28_AllocatesOnlyWhenNeeded ==
    trial.op = "SliceForAppend" =>
        LET allocated == Len(heap) > Len(trial.before)
            in == trial.buf
        IN  /\ allocated <=> in.cap < in.len + trial.n
            /\ ~allocated =>
                   /\ trial.head.arr = in.arr
                   /\ trial.head.off = in.off
                   /\ trial.wrote = "tail" =>
                          heap[in.arr][in.off + in.len + trial.at + 1] = trial.byte
            /\ allocated =>
                   /\ trial.head.arr \notin 1 .. Len(trial.before)
                   /\ Len(heap[trial.head.arr]) = in.len + trial.n
                   /\ trial.wrote = "none" =>
                          bytesOf(heap, reslice(trial.head, 0, in.len))
                              = bytesOf(trial.before, in)
                   /\ (trial.wrote \in {"head", "tail"} /\ in.arr # 0) =>
                          heap[in.arr] = trial.before[in.arr]

\* The capacity covered the request, and a byte stored through tail changed
\* a byte of in's spare capacity.
C28_Witness ==
    /\ trial.op = "SliceForAppend"
    /\ trial.n > 0
    /\ Len(heap) = Len(trial.before)
    /\ trial.wrote = "tail"
    /\ trial.byte
           # trial.before[trial.buf.arr][trial.buf.off + trial.buf.len + trial.at + 1]

\* What a half connection holds, its traffic secret read through the slice.
TwinState(s) ==
    [trafficSecret |-> secretOf(secretBufs, conns[s].hc.trafficSecret),
     key |-> conns[s].hc.key, nonce |-> conns[s].hc.nonce,
     crypterKey |-> conns[s].hc.aeadCrypter.key, seqCounter |-> conns[s].hc.seqCounter]

\* C24: a step of Encrypt, Decrypt or UpdateKey on one half connection
\* leaves the other's secret, key, static nonce, crypter key and counter as
\* they were, and a caller waiting for its half connection's mutex can take
\* it whatever the other's mutex is; also when both were built from one
\* secret buffer.
C24_HalfConnectionsIndependent ==
    /\ [][\A s \in Sides :
              conns'[s] # conns[s] =>
                  \A u \in Sides \ {s} : TwinState(u)' = TwinState(u)]_vars
    /\ [](\A s \in Sides : conns[s].pc = "lock" => ENABLED TwinLock(s))

\* Built from one buffer; the sender has updated its key and is in a call
\* holding its mutex, and the receiver, still on the initial secret, holds
\* its own.
C24_Witness ==
    /\ conns # <<>>
    /\ conns["sender"].origin = conns["receiver"].origin
    /\ conns["sender"].hc.trafficSecret \notin {0, conns["sender"].origin}
    /\ TwinState("receiver").trafficSecret = InitialSecret(Suite.trafficSecretSize)
    /\ conns["receiver"].hc.seqCounter # newCounter
    /\ conns["sender"].mutex
    /\ conns["receiver"].mutex

\* A step of the call thread t is in.
Step(t) ==
    \/ Lock(t)
    \/ GetAndIncrement(t)
    \/ OverflowReturn(t)
    \/ MaskAndUnlock(t)
    \/ \E authOk \in BOOLEAN : Aead(t, authOk)
    \/ \E ok \in BOOLEAN : UpdateDeriveSecret(t, ok)
    \/ \E okKey \in BOOLEAN, okNonce \in BOOLEAN, out \in ExpanderOutputs :
           UpdateKeys(t, okKey, okNonce, out)
    \/ UpdateCrypterKey(t)
    \/ UpdateReset(t)
    \/ UpdateReturn(t)
    \/ Return(t)

\* C25: every call returns and the mutex is free on every return path: a
\* call that has returned does not hold the mutex, and a call in progress
\* can take its next step, or waits for the mutex while its holder can take
\* its next step.
C25_EveryCallReturns ==
    \A t \in Threads :
        /\ pc[t] \in {"ret", "idle"} => mutex # t
        /\ pc[t] # "idle" =>
               \/ ENABLED Step(t)
               \/ /\ pc[t] = "lock"
                  /\ mutex # NoThread
                  /\ ENABLED Step(mutex)

\* C26: Encrypt and Decrypt hold the mutex only while they read and
\* increment the counter and compute the record nonce, never in the AEAD
\* step; a caller waiting for the mutex while the other calls are in their
\* AEAD step (or done) can take it.
C26_AeadOutsideMutex ==
    \A t \in Threads :
        /\ pc[t] = "aead" => mutex # t
        /\ (mutex = t /\ op[t] \in {"Encrypt", "Decrypt"}) =>
               pc[t] \in {"seq", "ovf", "mask", "panic"}
        /\ (pc[t] = "lock"
            /\ \A u \in Threads \ {t} : pc[u] \in {"aead", "ret", "idle"}) =>
               ENABLED Lock(t)

\* Two calls are in their AEAD step at the same time.
C26_Witness ==
    /\ \A t \in Threads : pc[t] = "aead"
    /\ \E t, u \in Threads : t # u /\ sequence[t] # sequence[u]
    /\ mutex = NoThread

\* C27: a step of Encrypt or Decrypt leaves the traffic secret, the key, the
\* static nonce and the crypter's key as they were and advances the counter
\* by one or not at all; over the whole call the counter advances by one, or
\* by nothing when the call fails with overflow.
C27_EncryptDecryptFrame ==
    /\ [][\A t \in Threads :
              (pc'[t] # pc[t] /\ (op[t] \in {"Encrypt", "Decrypt"}
                                  \/ op'[t] \in {"Encrypt", "Decrypt"})) =>
                  /\ UNCHANGED <<trafficSecret, key, nonce, aeadCrypter>>
                  /\ seqCounter' \in {seqCounter, increment(seqCounter)}]_vars
    /\ [](\A t \in Threads :
              (pc[t] = "ret" /\ op[t] \in {"Encrypt", "Decrypt"}) =>
                  delta[t] = IF result[t] = "overflow" THEN 0 ELSE 1)

\* A Decrypt has failed in the AEAD step with a record nonce that differs
\* from the static nonce, which is still the one derived at construction.
C27_Witness ==
    \E t \in Threads :
        /\ pc[t] = "ret"
        /\ op[t] = "Decrypt"
        /\ result[t] = "aead_error"
        /\ delta[t] = 1
        /\ recNonce[t] # nonce.bytes
        /\ nonce.bytes \in InitialNonces
        /\ updates = 0

\* The fields of an HkdfLabel, read back from its bytes: the length as a
\* big-endian uint16, the label after its length byte, and what follows it.
ParsedLabel(info) ==
    [length |-> info[1] * 256 + info[2],
     label |-> SubSeq(info, 4, 3 + info[3]),
     rest |-> SubSeq(info, 4 + info[3], Len(info))]

\* What the expander was given for a derived value: its info without the
\* hash, its secret and its length.
InfoOf(v) == Tail(v.info)

\* "tls13 key", "tls13 iv" and "tls13 traffic upd" in ASCII.
AsciiKey == <<116, 108, 115, 49, 51, 32>> \o <<107, 101, 121>>
AsciiIv == <<116, 108, 115, 49, 51, 32>> \o <<105, 118>>
AsciiTrafficUpd ==
    <<116, 108, 115, 49, 51, 32>> \o <<116, 114, 97, 102, 102, 105, 99>> \o <<32>>
        \o <<117, 112, 100>>

\* C29: for a label shorter than 256 bytes and a length below 2^16,
\* deriveSecret hands the expander the secret, the length, and an info of
\* two bytes holding the length big-endian, one byte holding the label's
\* length, the label, and one zero byte; it fails only when the expander
\* does.  The half connection derives its key with "tls13 key", its nonce
\* with "tls13 iv" and its next secret with "tls13 traffic upd".
C29_DeriveSecretInfo ==
    /\ (asked.called /\ asked.op = "deriveSecret" /\ Len(asked.label) < 256
        /\ asked.length < 65536) =>
           /\ asked.r.err = ~asked.ok
           /\ asked.ok =>
                  LET info == InfoOf(asked.r.val)
                      p == ParsedLabel(info)
                  IN  /\ Len(info) = 2 + 1 + Len(asked.label) + 1
                      /\ \A i \in 1 .. Len(info) : info[i] \in 0 .. 255
                      /\ p.length = asked.length
                      /\ info[3] = Len(asked.label)
                      /\ p.label = asked.label
                      /\ p.rest = <<0>>
                      /\ asked.r.val.src = Encode(asked.secret)
                      /\ asked.r.val.len = asked.length
                      /\ Head(asked.r.val.info) = asked.h
    /\ (asked.called /\ asked.op = "UpdateKey") =>
           /\ ParsedLabel(InfoOf(asked.built.key)).label = AsciiKey
           /\ ParsedLabel(InfoOf(asked.built.nonce)).label = AsciiIv
           /\ asked.built.trafficSecret.info = <<>>
           /\ ParsedLabel(InfoOf(asked.updated.trafficSecret)).label = AsciiTrafficUpd
           /\ ParsedLabel(InfoOf(asked.updated.key)).label = AsciiKey
           /\ ParsedLabel(InfoOf(asked.updated.nonce)).label = AsciiIv

\* A label of the half connection and a length that fills both bytes.
C29_Witness ==
    /\ asked.called
    /\ asked.op = "deriveSecret"
    /\ asked.ok
    /\ asked.label = AsciiTrafficUpd
    /\ asked.length = 257
    /\ InfoOf(asked.r.val)[1] = 1
    /\ InfoOf(asked.r.val)[2] = 1

\* The calls made one after the other: the half connection after n calls
\* on hc, and the key and per-record nonce each of them gave the crypter.
RECURSIVE InTurn(_, _)
InTurn(hc, n) ==
    IF n = 0 THEN [hc |-> hc, records |-> <<>>]
    ELSE LET p == InTurn(hc, n - 1)
             r == Encrypt(p.hc, 1, 1)
         IN  [hc |-> r.hc, records |-> Append(p.records, r)]

\* C30: while no UpdateKey has been called, the calls that have taken the
\* mutex so far, in the order they took it, were given the keys and
\* per-record nonces that the same number of calls give when made one
\* after the other on the half connection as constructed, and the counter
\* is where those calls leave it; a call that fails with overflow is one
\* that fails so after them too.
C30_LinearizableWithoutUpdates ==
    updates = 0 =>
        \E out \in InitialNonces :
            LET built == NewHalfConn(Suite.name, InitialSecret(Suite.trafficSecretSize),
                                     FALSE, TRUE, TRUE, out).hc
                ref == InTurn(built, Len(issued))
            IN  /\ nonce = built.nonce
                /\ seqCounter = ref.hc.seqCounter
                /\ Len(masked) <= Len(issued)
                /\ \A i \in 1 .. Len(issued) :
                       /\ ref.records[i].result = "ok"
                       /\ ref.records[i].sequence = issued[i]
                /\ \A i \in 1 .. Len(masked) :
                       masked[i].nonce = ref.records[i].out.nonce
                /\ \A t \in Threads :
                       /\ pc[t] \in {"aead", "ret"} /\ result[t] # "overflow" =>
                              \E i \in 1 .. Len(masked) :
                                  /\ issued[i] = sequence[t]
                                  /\ recNonce[t] = ref.records[i].out.nonce
                                  /\ madeAead[t] => keyUsed[t] = ref.records[i].out.key
                       /\ pc[t] = "ovf" \/ result[t] = "overflow" =>
                              /\ Encrypt(ref.hc, 1, 1).result = "overflow"
                              /\ Encrypt(ref.hc, 1, 1).hc = ref.hc

\* Two calls in progress at once, the second sequence number given out
\* and used, and no UpdateKey so far.
C30_Witness ==
    /\ updates = 0
    /\ overlap
    /\ Len(masked) >= 2
    /\ \E t \in Threads, u \in Threads :
           /\ t # u
           /\ pc[t] = "ret" /\ madeAead[t] /\ sequence[t] = 1
           /\ pc[u] = "aead" /\ sequence[u] = 0
====
